---------------------------- MODULE Spec2Model ----------------------------
(***************************************************************************)
(* Model of the radar composite-and-route-analysis engine of MotoRain      *)
(* (src/backend/radar_rain_checker.py, class RadarRainChecker).            *)
(*                                                                         *)
(* The specifications of the module:                                       *)
(*   SpecClassify  the two pixel classifiers applied to one colour;        *)
(*   SpecLine      get_pixels_along_line, one loop iteration per step;     *)
(*   SpecProject   latlon_to_pixels on one coordinate;                     *)
(*   Spec          process_frames: create_composite_image folded frame by  *)
(*                 frame, then the route loop with its try/except;         *)
(*   SpecCalls     successive process_frames calls, up to two routes;      *)
(*   SpecShapes    create_composite_image on frames of different sizes;    *)
(*   SpecBounds    process_frames with any bounding box;                   *)
(*   SpecApi       startup_event and concurrent /check_rain/ requests of   *)
(*                 app.py and app_mobile.py around the shared checker;     *)
(*   SpecSchedule  the schedule store of app_mobile.py;                    *)
(*   SpecBackground  schedule_background_check on one commute time;        *)
(*   SpecTrigger   the cron trigger of a scheduled commute check of the    *)
(*                 Telegram bot (telegram_bot/bot.py);                     *)
(*   SpecBot       the handlers of the bot for two users;                  *)
(*   SpecChat      the handlers for one user, in a chat with history;      *)
(*   SpecFresh     the handlers for one user, in a new chat;               *)
(*   SpecScrape    the start of the bot: the task of the initial scrape    *)
(*                 beside the handlers, with fairness.                     *)
(*                                                                         *)
(* Colours are RGB triples <<r, g, b>> with channels in 0..255.  An image  *)
(* is a function from the pixel positions <<x, y>> of its raster to        *)
(* colours.  Latitudes and longitudes are integers in hundredths of a      *)
(* degree, so that the projection is exact rational arithmetic.            *)
(***************************************************************************)
EXTENDS Integers, Sequences, FiniteSets, TLC

VARIABLES
    \* --- RadarRainChecker attributes ---
    radar_data,       \* self.radar_data: sequence of [time, image]
    map_bounds,       \* self.map_bounds: <<lat_min, lon_min, lat_max, lon_max>>
    routes,           \* self.routes: sequence of [user, home, work]
    last_composite,   \* self.last_composite: image or NoImage
    last_times,       \* self.last_times: sequence of time labels
    \* --- locals of create_composite_image / process_frames ---
    comp_array,       \* comp_array (line 331)
    is_storm_base,    \* is_storm_base (line 332)
    times,            \* times (line 329)
    fi,               \* index in radar_data of the next frame of the loop at 334
    results,          \* results (line 370): user -> result record
    ri,               \* index in routes of the route of the loop at 375
    loc,              \* locals of the current iteration of the route loop
    saved_maps,       \* users whose annotated map file was written (line 442)
    pc,               \* position in process_frames
    \* --- get_pixels_along_line (SpecLine) ---
    ln,               \* locals of get_pixels_along_line
    lpc,              \* position in get_pixels_along_line
    \* --- classifiers (SpecClassify) ---
    pixel,            \* the colour being classified
    intensity,        \* result of get_pixel_intensity(pixel)
    storm,            \* result of _is_storm_pixel_array at that pixel
    cpc,              \* position of the classification
    \* --- latlon_to_pixels (SpecProject) ---
    pj,               \* arguments and result of one latlon_to_pixels call
    ppc,              \* position of that call
    \* --- successive process_frames calls (SpecCalls) ---
    prev,             \* frames, routes and returned results of the previous call
    calls,            \* number of process_frames calls started
    \* --- the API (SpecApi), app.py and app_mobile.py ---
    radar_data_scraped,   \* the global flag radar_data_scraped
    startup,          \* position of startup_event
    requests,         \* the /check_rain/ requests: locals and response of each
    loop,             \* the request whose coroutine runs on the event loop, or 0
    \* --- the schedule store of the mobile API (SpecSchedule) ---
    scheduled_checks, \* the global dict scheduled_checks: user_id -> schedule
    log,              \* the requests received so far, in order
    reply,            \* the response to the last request
    \* --- schedule_background_check (SpecBackground) ---
    bg,               \* arguments, clock readings and check_time of one call
    bpc,              \* position of that call
    \* --- the Telegram bot (SpecBot, SpecChat, SpecFresh, SpecScrape), telegram_bot/bot.py ---
    user_data,        \* the global dict user_data: user id -> dict
    saved_routes,     \* the global dict saved_routes: user id -> list of routes
    scheduled_commutes,   \* the global dict scheduled_commutes: user id -> list
    job_queue,        \* the jobs of context.job_queue, in the order they were added
    initial_scrape_done,  \* the asyncio.Event initial_scrape_done is set
    conv,             \* state of conv_handler for each user
    sched_conv,       \* state of schedule_conv_handler for each user
    context_user_data,    \* context.user_data of each user
    keyboards,        \* for each user, the inline keyboards on the chat's messages
    scrape_task,      \* position of the task scrape_and_set_event
    waiting,          \* the handler suspended in initial_scrape_done.wait(), if any
    \* --- the cron trigger of a commute job (SpecTrigger) ---
    tr,               \* the entered time, the clock's offsets and the trigger
    tpc               \* position of the computation

engineVars == <<radar_data, routes, map_bounds, last_composite, last_times, comp_array,
                is_storm_base, times, fi, results, ri, loc, saved_maps, pc>>
lineVars == <<ln, lpc>>
classVars == <<pixel, intensity, storm, cpc>>
projVars == <<pj, ppc>>
callVars == <<prev, calls>>
apiVars == <<radar_data_scraped, startup, requests, loop>>
schedVars == <<scheduled_checks, log, reply>>
bgVars == <<bg, bpc>>
botVars == <<user_data, saved_routes, scheduled_commutes, job_queue,
             initial_scrape_done, conv, sched_conv, context_user_data, keyboards,
             scrape_task, waiting>>
trigVars == <<tr, tpc>>
tgVars == <<botVars, trigVars>>
appVars == <<apiVars, schedVars, bgVars, tgVars>>
vars == <<engineVars, lineVars, classVars, projVars, callVars, appVars>>

---------------------------------------------------------------------------
(* Arithmetic helpers (Python builtins abs, max, min).                     *)

Abs(n) == IF n < 0 THEN -n ELSE n

Max2(a, b) == IF a >= b THEN a ELSE b

Min2(a, b) == IF a <= b THEN a ELSE b

\* NumPy uint8 arithmetic: the sum of a uint8 array and a small Python int
\* stays uint8 and wraps modulo 256.
U8(n) == n % 256

---------------------------------------------------------------------------
(* Class constants, lines 40-50.                                           *)

NO_RAIN == 0

LIGHT_RAIN == 1

MODERATE_RAIN == 2

HEAVY_RAIN == 3

RAIN_INTENSITY_MAP(i) ==
    CASE i = NO_RAIN -> "None"
      [] i = LIGHT_RAIN -> "Light"
      [] i = MODERATE_RAIN -> "Moderate"
      [] i = HEAVY_RAIN -> "Heavy"
      [] OTHER -> "None"

---------------------------------------------------------------------------
(* get_pixel_intensity, lines 156-190: sequential ifs, first return wins.  *)

get_pixel_intensity_swapped(px) ==
    \* faulty variant: the Moderate test placed before the Heavy test
    LET r == px[1]
        g == px[2]
        b == px[3]
        is_dark_or_light == Max2(Max2(r, g), b) < 50 \/ Min2(Min2(r, g), b) > 240
        is_gray == Abs(r - g) < 20 /\ Abs(r - b) < 20 /\ r >= 80 /\ r <= 240
        is_orange_or_red == \/ (r > 180 /\ 80 <= g /\ g < 180 /\ b < 80)
                            \/ (r > 180 /\ g < 80 /\ b < 80)
        is_green == g > r + 30 /\ g > b + 30 /\ g > 100
        is_yellow == r > 120 /\ g > 120 /\ b < 80
        is_magenta == r > 120 /\ g < 120 /\ b > 120
        is_cyan_or_blue == b > r + 30 /\ b > g + 10 /\ b > 120 /\ g > r
    IN  IF is_dark_or_light \/ is_gray THEN NO_RAIN
        ELSE IF is_green \/ is_yellow \/ is_magenta THEN MODERATE_RAIN
        ELSE IF is_orange_or_red THEN HEAVY_RAIN
        ELSE IF is_cyan_or_blue THEN LIGHT_RAIN
        ELSE NO_RAIN

get_pixel_intensity(px) ==
    LET r == px[1]
        g == px[2]
        b == px[3]
        is_dark_or_light == Max2(Max2(r, g), b) < 50 \/ Min2(Min2(r, g), b) > 240
        is_gray == Abs(r - g) < 20 /\ Abs(r - b) < 20 /\ r >= 80 /\ r <= 240
        is_orange_or_red == \/ (r > 180 /\ 80 <= g /\ g < 180 /\ b < 80)
                            \/ (r > 180 /\ g < 80 /\ b < 80)
        is_green == g > r + 30 /\ g > b + 30 /\ g > 100
        is_yellow == r > 120 /\ g > 120 /\ b < 80
        is_magenta == r > 120 /\ g < 120 /\ b > 120
        is_cyan_or_blue == b > r + 30 /\ b > g + 10 /\ b > 120 /\ g > r
    IN  IF is_dark_or_light \/ is_gray THEN NO_RAIN
        ELSE IF is_orange_or_red THEN HEAVY_RAIN
        ELSE IF is_green \/ is_yellow \/ is_magenta THEN MODERATE_RAIN
        ELSE IF is_cyan_or_blue THEN LIGHT_RAIN
        ELSE NO_RAIN

\* is_rain_color, lines 192-195
is_rain_color(px) == get_pixel_intensity(px) > NO_RAIN

---------------------------------------------------------------------------
(* _is_storm_pixel_array, lines 293-321, at one pixel of a uint8 RGB(A)    *)
(* array.  r, g, b are uint8: r + 30, g + 10 and b + 30 wrap modulo 256;   *)
(* only the gray mask converts to int before subtracting.  The guard of    *)
(* line 299 (fewer than 3 channels) never holds for an RGB triple.         *)

_is_storm_pixel_array(px) ==
    LET r == px[1]
        g == px[2]
        b == px[3]
        dark_mask == Max2(Max2(r, g), b) < 50
        light_mask == Min2(Min2(r, g), b) > 240
        gray_mask == Abs(r - g) < 20 /\ Abs(r - b) < 20 /\ r >= 80 /\ r <= 240
        cyan_mask == b > U8(r + 30) /\ b > U8(g + 10) /\ b > 120 /\ g > r
        green_mask == g > U8(r + 30) /\ g > U8(b + 30) /\ g > 100
        yellow_mask == r > 120 /\ g > 120 /\ b < 80
        orange_mask == r > 180 /\ g >= 80 /\ g < 180 /\ b < 80
        red_mask == r > 180 /\ g < 80 /\ b < 80
        magenta_mask == r > 120 /\ g < 120 /\ b > 120
        rain_mask == \/ cyan_mask \/ green_mask \/ yellow_mask
                     \/ orange_mask \/ red_mask \/ magenta_mask
        non_rain_mask == dark_mask \/ light_mask \/ gray_mask
    IN  rain_mask /\ ~non_rain_mask

---------------------------------------------------------------------------
(* Values the unused variables of a specification are parked at.           *)

\* CATALUNYA_BOUNDS = (40.67, 0.14, 42.95, 3.5), line 24, in hundredths
CATALUNYA_BOUNDS == <<4067, 14, 4295, 350>>

NoImage == [width |-> 0, height |-> 0, px |-> <<>>]

EngineIdle ==
    /\ radar_data = <<>>
    /\ routes = <<>>
    /\ map_bounds = CATALUNYA_BOUNDS
    /\ last_composite = NoImage
    /\ last_times = <<>>
    /\ comp_array = NoImage
    /\ is_storm_base = <<>>
    /\ times = <<>>
    /\ fi = 0
    /\ results = <<>>
    /\ ri = 0
    /\ loc = <<>>
    /\ saved_maps = {}
    /\ pc = "idle"

LineIdle ==
    /\ ln = <<>>
    /\ lpc = "idle"

ClassIdle ==
    /\ pixel = <<0, 0, 0>>
    /\ intensity = NO_RAIN
    /\ storm = FALSE
    /\ cpc = "idle"

ProjIdle ==
    /\ pj = <<>>
    /\ ppc = "idle"

\* the first process_frames call of a checker: no previous call
CallIdle ==
    /\ prev = <<>>
    /\ calls = 1

ApiIdle ==
    /\ radar_data_scraped = FALSE
    /\ startup = "idle"
    /\ requests = <<>>
    /\ loop = 0

SchedIdle ==
    /\ scheduled_checks = <<>>
    /\ log = <<>>
    /\ reply = <<>>

BgIdle ==
    /\ bg = <<>>
    /\ bpc = "idle"

\* no bot process
BotIdle ==
    /\ user_data = <<>>
    /\ saved_routes = <<>>
    /\ scheduled_commutes = <<>>
    /\ job_queue = <<>>
    /\ initial_scrape_done = FALSE
    /\ conv = <<>>
    /\ sched_conv = <<>>
    /\ context_user_data = <<>>
    /\ keyboards = <<>>
    /\ scrape_task = "idle"
    /\ waiting = <<>>

TrigIdle ==
    /\ tr = <<>>
    /\ tpc = "idle"

TgIdle == BotIdle /\ TrigIdle

\* the engine used alone: no API and no bot around it
AppIdle == ApiIdle /\ SchedIdle /\ BgIdle /\ TgIdle

---------------------------------------------------------------------------
(* SpecClassify: one colour, classified by the scalar classifier           *)
(* (get_pixel_intensity) and by the array mask (_is_storm_pixel_array).    *)
(* The channel values are the boundary values of every threshold of the    *)
(* two classifiers (50, 80, 100, 120, 180, 240; differences 10, 20, 30)    *)
(* and the values whose uint8 sums wrap (r or b above 225, g above 245).   *)

ChannelSamples ==
    {0, 49, 50, 79, 80, 99, 100, 101, 119, 120, 121, 130, 131, 150, 151,
     179, 180, 181, 200, 211, 230, 240, 241, 250, 255}

Colours == ChannelSamples \X ChannelSamples \X ChannelSamples

InitClassify ==
    /\ pixel \in Colours
    /\ intensity = NO_RAIN
    /\ storm = FALSE
    /\ cpc = "input"
    /\ EngineIdle
    /\ LineIdle
    /\ ProjIdle
    /\ CallIdle
    /\ AppIdle

Classify ==
    /\ cpc = "input"
    /\ intensity' = get_pixel_intensity(pixel)
    /\ storm' = _is_storm_pixel_array(pixel)
    /\ cpc' = "done"
    /\ UNCHANGED <<pixel, engineVars, lineVars, projVars, callVars, appVars>>

NextClassify == Classify

SpecClassify == InitClassify /\ [][NextClassify]_vars

---------------------------------------------------------------------------
(* The predicates of the precedence rule, as the rule states them.         *)

RuleBackground(px) ==
    \/ Max2(Max2(px[1], px[2]), px[3]) < 50
    \/ Min2(Min2(px[1], px[2]), px[3]) > 240
    \/ (Abs(px[1] - px[2]) < 20 /\ Abs(px[1] - px[3]) < 20
        /\ 80 <= px[1] /\ px[1] <= 240)

RuleOrange(px) == px[1] > 180 /\ 80 <= px[2] /\ px[2] < 180 /\ px[3] < 80

RuleRed(px) == px[1] > 180 /\ px[2] < 80 /\ px[3] < 80

RuleGreen(px) == px[2] > px[1] + 30 /\ px[2] > px[3] + 30 /\ px[2] > 100

RuleYellow(px) == px[1] > 120 /\ px[2] > 120 /\ px[3] < 80

RuleMagenta(px) == px[1] > 120 /\ px[2] < 120 /\ px[3] > 120

RuleCyan(px) ==
    px[3] > px[1] + 30 /\ px[3] > px[2] + 10 /\ px[3] > 120 /\ px[2] > px[1]

RuleHeavy(px) == RuleOrange(px) \/ RuleRed(px)

RuleModerate(px) == RuleGreen(px) \/ RuleYellow(px) \/ RuleMagenta(px)

RuleAnyRain(px) == RuleHeavy(px) \/ RuleModerate(px) \/ RuleCyan(px)

\* C4: get_pixel_intensity is total on 8-bit RGB triples and returns exactly
\* the tier of the precedence rule, first match wins: background gives None,
\* then orange/red Heavy, then green/yellow/magenta Moderate, then cyan/blue
\* Light, otherwise None; orange-and-yellow is Heavy, and a background colour
\* is None even when it also satisfies a rain predicate.
C4_PrecedenceRule ==
    cpc = "done" =>
        /\ intensity \in {NO_RAIN, LIGHT_RAIN, MODERATE_RAIN, HEAVY_RAIN}
        /\ RuleBackground(pixel) => intensity = NO_RAIN
        /\ (~RuleBackground(pixel) /\ RuleHeavy(pixel)) => intensity = HEAVY_RAIN
        /\ (~RuleBackground(pixel) /\ ~RuleHeavy(pixel) /\ RuleModerate(pixel))
              => intensity = MODERATE_RAIN
        /\ (~RuleBackground(pixel) /\ ~RuleHeavy(pixel) /\ ~RuleModerate(pixel)
            /\ RuleCyan(pixel)) => intensity = LIGHT_RAIN
        /\ (~RuleBackground(pixel) /\ ~RuleAnyRain(pixel)) => intensity = NO_RAIN
        /\ (RuleOrange(pixel) /\ RuleYellow(pixel)) => intensity = HEAVY_RAIN
        /\ (RuleBackground(pixel) /\ RuleAnyRain(pixel)) => intensity = NO_RAIN

\* C4 witness: a classified colour that is both orange and yellow (Heavy wins).
C4_OrangeAndYellowClassified ==
    /\ cpc = "done"
    /\ RuleOrange(pixel) /\ RuleYellow(pixel)
    /\ intensity = HEAVY_RAIN

\* A classified colour that is background (gray-like) and magenta: None wins.
C4_BackgroundAndRainClassified ==
    /\ cpc = "done"
    /\ RuleBackground(pixel) /\ RuleMagenta(pixel)
    /\ intensity = NO_RAIN

\* C5: the array mask and the scalar classifier agree on every colour:
\* _is_storm_pixel_array marks a pixel iff get_pixel_intensity > None.
C5_MaskEqualsScalar ==
    cpc = "done" => (storm <=> intensity > NO_RAIN)

\* The direction of C5 that the code keeps: every colour the scalar
\* classifier calls rain is marked by the array mask.
C5_ScalarRainIsMasked ==
    cpc = "done" => (intensity > NO_RAIN => storm)

---------------------------------------------------------------------------
(* get_pixels_along_line, lines 204-234.                                   *)
(*                                                                         *)
(* The locals are kept in a record.  err is the float dx / 2.0 (or         *)
(* dy / 2.0): it only ever holds multiples of one half, so the record      *)
(* keeps err2 = 2 * err, an integer, and the test err < 0 is err2 < 0.     *)
(* visited and reads are history fields: the positions whose bounds were   *)
(* tested (lines 215, 225, 232), in order, and the positions handed to     *)
(* img.getpixel.                                                           *)

\* faulty variant: upper bounds tested with <= instead of <
in_bounds_inclusive(img, x, y) ==
    0 <= x /\ x <= img.width /\ 0 <= y /\ y <= img.height

\* faulty variant: the lower bounds `0 <=` are not tested
in_bounds_no_lower(img, x, y) ==
    x < img.width /\ y < img.height

\* the test `0 <= x < img.width and 0 <= y < img.height`, lines 215, 225, 232
in_bounds(img, x, y) ==
    0 <= x /\ x < img.width /\ 0 <= y /\ y < img.height

\* PIL raises IndexError for a position outside the image
IndexError == <<-1, -1, -1>>

\* img.getpixel((x, y)), lines 216, 226, 233
getpixel(img, x, y) ==
    IF <<x, y>> \in DOMAIN img.px THEN img.px[<<x, y>>] ELSE IndexError

\* faulty variant: the step sx is 1 whatever the direction
LineInit_sx_forward(x0, y0, x1, y1) ==
    LET dx == Abs(x1 - x0)
        dy == Abs(y1 - y0)
    IN  [x0 |-> x0, y0 |-> y0, x1 |-> x1, y1 |-> y1,
         dx |-> dx, dy |-> dy,
         x |-> x0, y |-> y0,
         sx |-> 1,
         sy |-> IF y0 < y1 THEN 1 ELSE -1,
         err2 |-> IF dx > dy THEN dx ELSE dy,
         pixels |-> <<>>, visited |-> <<>>, reads |-> {}, iters |-> 0]

\* lines 207-213 / 223: the locals before the loop
LineInit(x0, y0, x1, y1) ==
    LET dx == Abs(x1 - x0)
        dy == Abs(y1 - y0)
    IN  [x0 |-> x0, y0 |-> y0, x1 |-> x1, y1 |-> y1,
         dx |-> dx, dy |-> dy,
         x |-> x0, y |-> y0,
         sx |-> IF x0 < x1 THEN 1 ELSE -1,
         sy |-> IF y0 < y1 THEN 1 ELSE -1,
         err2 |-> IF dx > dy THEN dx ELSE dy,
         pixels |-> <<>>, visited |-> <<>>, reads |-> {}, iters |-> 0]

\* the loop conditions, `while x != x1` (214) and `while y != y1` (224)
LineCond(s) == IF s.dx > s.dy THEN s.x # s.x1 ELSE s.y # s.y1

\* faulty variant: the minor-axis step is taken when err <= 0
LineBody_step_at_zero(img, s) ==
    LET inb == in_bounds(img, s.x, s.y)
        px1 == IF inb THEN Append(s.pixels, getpixel(img, s.x, s.y)) ELSE s.pixels
        rd1 == IF inb THEN s.reads \cup {<<s.x, s.y>>} ELSE s.reads
        vs1 == Append(s.visited, <<s.x, s.y>>)
    IN  IF s.dx > s.dy
        THEN LET e1 == s.err2 - 2 * s.dy
             IN  [s EXCEPT !.pixels = px1, !.reads = rd1, !.visited = vs1,
                           !.y = IF e1 <= 0 THEN s.y + s.sy ELSE s.y,
                           !.err2 = IF e1 <= 0 THEN e1 + 2 * s.dx ELSE e1,
                           !.x = s.x + s.sx,
                           !.iters = s.iters + 1]
        ELSE LET e1 == s.err2 - 2 * s.dx
             IN  [s EXCEPT !.pixels = px1, !.reads = rd1, !.visited = vs1,
                           !.x = IF e1 <= 0 THEN s.x + s.sx ELSE s.x,
                           !.err2 = IF e1 <= 0 THEN e1 + 2 * s.dy ELSE e1,
                           !.y = s.y + s.sy,
                           !.iters = s.iters + 1]

\* one iteration of the loop, lines 215-221 (dx > dy) or 225-231
LineBody(img, s) ==
    LET inb == in_bounds(img, s.x, s.y)
        px1 == IF inb THEN Append(s.pixels, getpixel(img, s.x, s.y)) ELSE s.pixels
        rd1 == IF inb THEN s.reads \cup {<<s.x, s.y>>} ELSE s.reads
        vs1 == Append(s.visited, <<s.x, s.y>>)
    IN  IF s.dx > s.dy
        THEN LET e1 == s.err2 - 2 * s.dy
             IN  [s EXCEPT !.pixels = px1, !.reads = rd1, !.visited = vs1,
                           !.y = IF e1 < 0 THEN s.y + s.sy ELSE s.y,
                           !.err2 = IF e1 < 0 THEN e1 + 2 * s.dx ELSE e1,
                           !.x = s.x + s.sx,
                           !.iters = s.iters + 1]
        ELSE LET e1 == s.err2 - 2 * s.dx
             IN  [s EXCEPT !.pixels = px1, !.reads = rd1, !.visited = vs1,
                           !.x = IF e1 < 0 THEN s.x + s.sx ELSE s.x,
                           !.err2 = IF e1 < 0 THEN e1 + 2 * s.dy ELSE e1,
                           !.y = s.y + s.sy,
                           !.iters = s.iters + 1]

\* faulty variant: the end point is not appended after the loop
LineEnd_no_endpoint(img, s) == [s EXCEPT !.visited = Append(s.visited, <<s.x1, s.y1>>)]

\* lines 232-234: the end point is appended if it lies inside the image
LineEnd(img, s) ==
    LET inb == in_bounds(img, s.x1, s.y1)
    IN  [s EXCEPT !.pixels = IF inb THEN Append(s.pixels, getpixel(img, s.x1, s.y1))
                                    ELSE s.pixels,
                  !.reads = IF inb THEN s.reads \cup {<<s.x1, s.y1>>} ELSE s.reads,
                  !.visited = Append(s.visited, <<s.x1, s.y1>>)]

RECURSIVE LineRun(_, _)
LineRun(img, s) ==
    IF LineCond(s) THEN LineRun(img, LineBody(img, s)) ELSE LineEnd(img, s)

\* the whole call: the returned list is the pixels field
get_pixels_along_line(img, x0, y0, x1, y1) ==
    LineRun(img, LineInit(x0, y0, x1, y1))

---------------------------------------------------------------------------
(* SpecLine: get_pixels_along_line on an image whose colour at (x, y) is   *)
(* <<x, y, 0>>, so that a returned colour names the position it was read   *)
(* at.  End points range over the image and a margin around it.            *)

LineW == 4

LineH == 3

Margin == 2

LineImage ==
    [width |-> LineW, height |-> LineH,
     px |-> [p \in (0 .. LineW - 1) \X (0 .. LineH - 1) |-> <<p[1], p[2], 0>>]]

LineXs == (0 - Margin) .. (LineW - 1 + Margin)

LineYs == (0 - Margin) .. (LineH - 1 + Margin)

InitLine ==
    /\ \E x0 \in LineXs, y0 \in LineYs, x1 \in LineXs, y1 \in LineYs :
          ln = LineInit(x0, y0, x1, y1)
    /\ lpc = "loop"
    /\ EngineIdle
    /\ ClassIdle
    /\ ProjIdle
    /\ CallIdle
    /\ AppIdle

LineLoopStep ==
    /\ lpc = "loop"
    /\ LineCond(ln)
    /\ ln' = LineBody(LineImage, ln)
    /\ UNCHANGED <<lpc, engineVars, classVars, projVars, callVars, appVars>>

LineReturn ==
    /\ lpc = "loop"
    /\ ~LineCond(ln)
    /\ ln' = LineEnd(LineImage, ln)
    /\ lpc' = "done"
    /\ UNCHANGED <<engineVars, classVars, projVars, callVars, appVars>>

NextLine == LineLoopStep \/ LineReturn

SpecLine == InitLine /\ [][NextLine]_vars

\* the in-bounds positions of a sequence of positions, in order
RECURSIVE InBoundsOnly(_, _)
InBoundsOnly(img, ps) ==
    IF ps = <<>> THEN <<>>
    ELSE LET rest == InBoundsOnly(img, Tail(ps))
         IN  IF 0 <= Head(ps)[1] /\ Head(ps)[1] < img.width
                /\ 0 <= Head(ps)[2] /\ Head(ps)[2] < img.height
             THEN <<Head(ps)>> \o rest
             ELSE rest

SegmentInside(s) ==
    /\ s.x0 \in 0 .. LineW - 1 /\ s.x1 \in 0 .. LineW - 1
    /\ s.y0 \in 0 .. LineH - 1 /\ s.y1 \in 0 .. LineH - 1

\* C9: for a segment inside the raster, get_pixels_along_line returns exactly
\* max(|dx|,|dy|)+1 samples, the first the colour at (x0,y0), the last the
\* colour at (x1,y1); between consecutive samples the dominant-axis coordinate
\* advances by exactly 1 and the other coordinate by at most 1.
C9_InsideSegmentSamples ==
    (lpc = "done" /\ SegmentInside(ln)) =>
        LET n == Max2(ln.dx, ln.dy) + 1
            P == ln.pixels
        IN  /\ Len(P) = n
            /\ P[1] = <<ln.x0, ln.y0, 0>>
            /\ P[n] = <<ln.x1, ln.y1, 0>>
            /\ \A i \in 1 .. n - 1 :
                  IF ln.dx > ln.dy
                  THEN /\ P[i + 1][1] = P[i][1] + ln.sx
                       /\ Abs(P[i + 1][2] - P[i][2]) <= 1
                  ELSE /\ P[i + 1][2] = P[i][2] + ln.sy
                       /\ Abs(P[i + 1][1] - P[i][1]) <= 1

\* C9 witness: the horizontal segment (0,0)-(3,0) returned x = 0,1,2,3 at y = 0.
C9_HorizontalSegmentDone ==
    /\ lpc = "done"
    /\ ln.x0 = 0 /\ ln.y0 = 0 /\ ln.x1 = 3 /\ ln.y1 = 0
    /\ ln.pixels = <<<<0, 0, 0>>, <<1, 0, 0>>, <<2, 0, 0>>, <<3, 0, 0>>>>

\* C10: out-of-bounds steps are skipped, never fatal: for any end points the
\* returned list is, in stepping order, the colours of exactly the stepped
\* pixels that lie inside the raster, and no position outside it is read.
C10_OutOfBoundsSkipped ==
    /\ lpc \in {"loop", "done"} =>
          /\ \A p \in ln.reads : p \in DOMAIN LineImage.px
          /\ \A i \in 1 .. Len(ln.pixels) : ln.pixels[i] # IndexError
    /\ lpc = "done" =>
          LET inside == InBoundsOnly(LineImage, ln.visited)
          IN  /\ Len(ln.pixels) = Len(inside)
              /\ \A i \in 1 .. Len(inside) :
                    ln.pixels[i] = LineImage.px[inside[i]]

\* C10 witness: a finished call that stepped outside the raster and still
\* returned the colours of its inside steps (a shorter, non-empty list).
C10_PartlyOutsideDone ==
    /\ lpc = "done"
    /\ Len(ln.pixels) > 0
    /\ Len(ln.pixels) < Len(ln.visited)

\* the distance left on the dominant axis
LineRemaining(s) == IF s.dx > s.dy THEN Abs(s.x1 - s.x) ELSE Abs(s.y1 - s.y)

\* C22: get_pixels_along_line terminates for every pair of integer end
\* points, also outside the raster, after exactly max(|dx|,|dy|) loop
\* iterations, visiting at most max(|dx|,|dy|)+1 pixels: every iteration
\* brings the dominant coordinate one step closer to its end value.
C22_TerminatesInMaxDeltaIterations ==
    /\ lpc = "loop" =>
          /\ ln.iters <= Max2(ln.dx, ln.dy)
          /\ LineRemaining(ln) = Max2(ln.dx, ln.dy) - ln.iters
          /\ Len(ln.visited) = ln.iters
    /\ lpc = "done" =>
          /\ ln.iters = Max2(ln.dx, ln.dy)
          /\ Len(ln.visited) = Max2(ln.dx, ln.dy) + 1
          /\ Len(ln.pixels) <= Max2(ln.dx, ln.dy) + 1

\* C22 witness: a call with both end points outside the raster, going left
\* and up, returned after max(|dx|,|dy|) = 5 iterations.
C22_LongOutsideSegmentDone ==
    /\ lpc = "done"
    /\ ln.x0 = LineW /\ ln.x1 = -1
    /\ ln.y0 > ln.y1
    /\ ln.iters = LineW + 1
    /\ Len(ln.visited) = LineW + 2

\* The standard integer Bresenham algorithm: the error starts at
\* floor(delta / 2) of the dominant axis, and the minor coordinate steps when
\* the error drops below 0.  b holds the current position, the integer error
\* and the positions stepped so far.
RECURSIVE IntegerBresenhamRun(_, _)
IntegerBresenhamRun(s, b) ==
    IF s.dx > s.dy
    THEN IF b.x = s.x1 THEN b
         ELSE LET e1 == b.err - s.dy
              IN  IntegerBresenhamRun(s,
                     [x |-> b.x + s.sx,
                      y |-> IF e1 < 0 THEN b.y + s.sy ELSE b.y,
                      err |-> IF e1 < 0 THEN e1 + s.dx ELSE e1,
                      stepped |-> Append(b.stepped, <<b.x, b.y>>)])
    ELSE IF b.y = s.y1 THEN b
         ELSE LET e1 == b.err - s.dx
              IN  IntegerBresenhamRun(s,
                     [x |-> IF e1 < 0 THEN b.x + s.sx ELSE b.x,
                      y |-> b.y + s.sy,
                      err |-> IF e1 < 0 THEN e1 + s.dy ELSE e1,
                      stepped |-> Append(b.stepped, <<b.x, b.y>>)])

\* the pixels of the integer algorithm for the end points of s: the stepped
\* positions, then the position where the loop ended
IntegerBresenham(s) ==
    LET b == IntegerBresenhamRun(s,
                [x |-> s.x0, y |-> s.y0,
                 err |-> (IF s.dx > s.dy THEN s.dx ELSE s.dy) \div 2,
                 stepped |-> <<>>])
    IN  Append(b.stepped, <<b.x, b.y>>)

\* C23: the pixels stepped by get_pixels_along_line, which keeps its error
\* term as the real number delta/2, are for every pair of integer end points
\* the pixels of the standard integer Bresenham algorithm, and the loop
\* always arrives at (x1,y1): when the dominant-axis loop ends, the minor-axis
\* coordinate equals its end value.
C23_SameAsIntegerBresenham ==
    lpc = "done" =>
        /\ ln.x = ln.x1 /\ ln.y = ln.y1
        /\ ln.visited = IntegerBresenham(ln)

\* C23 witness: a finished call on a sloped segment with an odd dominant
\* delta (the real error term is then never an integer) that took minor-axis
\* steps on some iterations and not on others.
C23_OddDeltaSegmentDone ==
    /\ lpc = "done"
    /\ ln.dx = 5 /\ ln.dy = 2
    /\ ln.x = ln.x1 /\ ln.y = ln.y1
    /\ ln.err2 % 2 = 1

\* the call on the same image in the opposite direction
ReverseCall(s) == get_pixels_along_line(LineImage, s.x1, s.y1, s.x0, s.y0)

\* the positions of a sequence, as a set
PositionSet(ps) == {ps[i] : i \in 1 .. Len(ps)}

\* C25 as stated: sampling from home to work and sampling from work to home
\* visit the same set of pixels (so that swapping home and work gives the same
\* will_rain, intensity and rain_ratio).
C25_DirectionSymmetric ==
    lpc = "done" =>
        PositionSet(ln.visited) = PositionSet(ReverseCall(ln).visited)

\* C25 amended: the two directions visit the same number of pixels with the
\* same two end pixels, and at every step of the dominant axis their pixels
\* differ by at most one on the minor axis; for horizontal, vertical and
\* diagonal segments they visit the same pixels and return the same colours
\* in opposite order, so the verdict is the same in both directions.
C25_StraightSegmentsSymmetric ==
    lpc = "done" =>
        LET r == ReverseCall(ln)
            n == Len(ln.visited)
            m == Len(ln.pixels)
        IN  /\ Len(r.visited) = n
            /\ r.visited[1] = ln.visited[n]
            /\ r.visited[n] = ln.visited[1]
            /\ \A i \in 1 .. n :
                  /\ Abs(ln.visited[i][1] - r.visited[n + 1 - i][1]) <= 1
                  /\ Abs(ln.visited[i][2] - r.visited[n + 1 - i][2]) <= 1
                  /\ ln.dx > ln.dy => ln.visited[i][1] = r.visited[n + 1 - i][1]
                  /\ ln.dx <= ln.dy => ln.visited[i][2] = r.visited[n + 1 - i][2]
            /\ (ln.dx = 0 \/ ln.dy = 0 \/ ln.dx = ln.dy) =>
                  /\ \A i \in 1 .. n : ln.visited[i] = r.visited[n + 1 - i]
                  /\ Len(r.pixels) = m
                  /\ \A i \in 1 .. m : ln.pixels[i] = r.pixels[m + 1 - i]

\* C25 witness: a finished call on a diagonal segment inside the raster,
\* whose three colours the opposite call returns in opposite order.
C25_DiagonalSegmentDone ==
    /\ lpc = "done"
    /\ SegmentInside(ln)
    /\ ln.dx = 2 /\ ln.dy = 2
    /\ Len(ln.pixels) = 3
    /\ ReverseCall(ln).pixels = <<ln.pixels[3], ln.pixels[2], ln.pixels[1]>>

\* an end point outside the raster
OutsideRaster(x, y) ==
    ~(0 <= x /\ x < LineW /\ 0 <= y /\ y < LineH)

\* both end points beyond the same edge of the raster
BeyondSameEdge(s) ==
    \/ (s.x0 < 0 /\ s.x1 < 0)
    \/ (s.x0 >= LineW /\ s.x1 >= LineW)
    \/ (s.y0 < 0 /\ s.y1 < 0)
    \/ (s.y0 >= LineH /\ s.y1 >= LineH)

\* C11 as stated: get_pixels_along_line called with both end points outside
\* the raster bounds returns an empty sequence.
C11_BothOutsideIsEmpty ==
    (lpc = "done" /\ OutsideRaster(ln.x0, ln.y0) /\ OutsideRaster(ln.x1, ln.y1))
        => ln.pixels = <<>>

\* C11 amended: get_pixels_along_line returns an empty sequence when both end
\* points lie outside the raster beyond the same edge (both left of it, both
\* right of it, both above or both below); end points outside on different
\* sides can span the raster, and the call then returns the crossed pixels.
C11_SameEdgeOutsideIsEmpty ==
    (lpc = "done" /\ BeyondSameEdge(ln)) => ln.pixels = <<>>

\* C11 witness: a finished call on a sloped segment of several steps whose
\* end points are both left of the raster.
C11_LeftOfRasterDone ==
    /\ lpc = "done"
    /\ ln.x0 < 0 /\ ln.x1 < 0
    /\ ln.x0 # ln.x1 /\ ln.y0 # ln.y1
    /\ ln.y0 \in 0 .. LineH - 1
    /\ Len(ln.visited) >= 2
    /\ ln.pixels = <<>>

---------------------------------------------------------------------------
(* create_composite_image, lines 323-348.                                  *)

\* _is_storm_pixel_array applied to a whole image array
storm_mask(img) == [p \in DOMAIN img.px |-> _is_storm_pixel_array(img.px[p])]

\* faulty variant: every storm pixel of the frame counts as new
new_storm_mask_ignoring_base(is_storm_frame, base) ==
    [p \in DOMAIN is_storm_frame |-> is_storm_frame[p]]

\* line 342: new_storm_mask = is_storm_frame & ~is_storm_base
new_storm_mask(is_storm_frame, base) ==
    [p \in DOMAIN is_storm_frame |-> is_storm_frame[p] /\ ~base[p]]

\* faulty variant: the two array arguments exchanged
np_where_swapped(mask, a, b) ==
    [b EXCEPT !.px = [p \in DOMAIN b.px |-> IF mask[p] THEN b.px[p] ELSE a.px[p]]]

\* line 345: np.where(mask[..., None], a, b) on same-shaped arrays
np_where(mask, a, b) ==
    [b EXCEPT !.px = [p \in DOMAIN b.px |-> IF mask[p] THEN a.px[p] ELSE b.px[p]]]

\* lines 328-332: the locals after the first frame
CompositeInit(frames) ==
    [comp_array |-> frames[1].image,
     is_storm_base |-> storm_mask(frames[1].image),
     times |-> <<frames[1].time>>]

\* faulty variant: the frame's time is put in front of the list
CompositeFoldFrame_time_in_front(c, frame_data) ==
    LET is_storm_frame == storm_mask(frame_data.image)
        new == new_storm_mask(is_storm_frame, c.is_storm_base)
    IN  [comp_array |-> np_where(new, frame_data.image, c.comp_array),
         is_storm_base |-> [p \in DOMAIN new |-> c.is_storm_base[p] \/ new[p]],
         times |-> <<frame_data.time>> \o c.times]

\* lines 335-346: one iteration of the loop over radar_data[1:]
CompositeFoldFrame(c, frame_data) ==
    LET is_storm_frame == storm_mask(frame_data.image)
        new == new_storm_mask(is_storm_frame, c.is_storm_base)
    IN  [comp_array |-> np_where(new, frame_data.image, c.comp_array),
         is_storm_base |-> [p \in DOMAIN new |-> c.is_storm_base[p] \/ new[p]],
         times |-> Append(c.times, frame_data.time)]

\* the loop of lines 334-346 from frame i on
RECURSIVE CompositeFoldFrom(_, _, _)
CompositeFoldFrom(c, frames, i) ==
    IF i > Len(frames) THEN c
    ELSE CompositeFoldFrom(CompositeFoldFrame(c, frames[i]), frames, i + 1)

\* the whole call, lines 323-348: (None, []) without frames, line 326
create_composite_image(frames) ==
    IF frames = <<>>
    THEN [image |-> NoImage, times |-> <<>>]
    ELSE LET c == CompositeFoldFrom(CompositeInit(frames), frames, 2)
         IN  [image |-> c.comp_array, times |-> c.times]

---------------------------------------------------------------------------
(* latlon_to_pixels, lines 139-145.  Degrees are in hundredths, so the     *)
(* quotient is an exact rational; int() truncates toward zero.  bbox is    *)
(* self.map_bounds.                                                        *)

\* Python int() of the rational n / d, d # 0: truncation toward zero
IntTrunc(n, d) ==
    LET a == Abs(n) \div Abs(d)
    IN  IF (n >= 0) = (d > 0) THEN a ELSE 0 - a

\* lines 143-144 divide by zero: Python raises ZeroDivisionError
ZeroSpan(bbox) == bbox[4] = bbox[2] \/ bbox[3] = bbox[1]

\* faulty variant: the latitude axis is not inverted
latlon_to_pixels_lat_up(bbox, lat, lon, img_size) ==
    LET lat_min == bbox[1]
        lon_min == bbox[2]
        lat_max == bbox[3]
        lon_max == bbox[4]
        width == img_size[1]
        height == img_size[2]
    IN  <<IntTrunc((lon - lon_min) * width, lon_max - lon_min),
          IntTrunc((lat - lat_min) * height, lat_max - lat_min)>>

latlon_to_pixels(bbox, lat, lon, img_size) ==
    LET lat_min == bbox[1]
        lon_min == bbox[2]
        lat_max == bbox[3]
        lon_max == bbox[4]
        width == img_size[1]
        height == img_size[2]
    IN  <<IntTrunc((lon - lon_min) * width, lon_max - lon_min),
          IntTrunc((lat_max - lat) * height, lat_max - lat_min)>>

---------------------------------------------------------------------------
(* SpecProject: one call of latlon_to_pixels.  The bounding boxes are      *)
(* well formed (lat_min < lat_max, lon_min < lon_max) and include the      *)
(* default one; the coordinates lie up to ProjReach hundredths of a degree *)
(* on either side of each edge of the box; the raster sides go up to       *)
(* ProjMaxSide.                                                            *)

ProjMaxSide == 3

ProjReach == 2

\* <<lat_min, lon_min, lat_max, lon_max>>, narrow and wide, around zero and
\* at the default origin
ProjBoxes ==
    {<<la, lo, la + ls, lo + ws>> :
        la \in {-5, CATALUNYA_BOUNDS[1]},
        lo \in {-5, CATALUNYA_BOUNDS[2]},
        ls \in {1, CATALUNYA_BOUNDS[3] - CATALUNYA_BOUNDS[1]},
        ws \in {2, CATALUNYA_BOUNDS[4] - CATALUNYA_BOUNDS[2]}}

ProjSizes == (1 .. ProjMaxSide) \X (1 .. ProjMaxSide)

ProjAround(lo, hi) ==
    {lo + d : d \in (0 - ProjReach) .. ProjReach} \cup
    {hi + d : d \in (0 - ProjReach) .. ProjReach}

NoPixel == <<>>

InitProject ==
    /\ \E b \in ProjBoxes, size \in ProjSizes :
         \E lat \in ProjAround(b[1], b[3]), lon \in ProjAround(b[2], b[4]) :
            pj = [map_bounds |-> b, lat |-> lat, lon |-> lon,
                  img_size |-> size, xy |-> NoPixel]
    /\ ppc = "call"
    /\ EngineIdle
    /\ LineIdle
    /\ ClassIdle
    /\ CallIdle
    /\ AppIdle

Project ==
    /\ ppc = "call"
    /\ pj' = [pj EXCEPT !.xy = latlon_to_pixels(pj.map_bounds, pj.lat, pj.lon,
                                                pj.img_size)]
    /\ ppc' = "done"
    /\ UNCHANGED <<engineVars, lineVars, classVars, callVars, appVars>>

NextProject == Project

SpecProject == InitProject /\ [][NextProject]_vars

\* C13: latlon_to_pixels maps the corners of the bounding box to the corners
\* of the raster: (lat_max, lon_min) to (0, 0) and (lat_min, lon_max) to
\* (width, height), for every well-formed box and every raster size.
C13_CornersToCorners ==
    ppc = "done" =>
        /\ (pj.lat = pj.map_bounds[3] /\ pj.lon = pj.map_bounds[2])
              => pj.xy = <<0, 0>>
        /\ (pj.lat = pj.map_bounds[1] /\ pj.lon = pj.map_bounds[4])
              => pj.xy = pj.img_size

\* C13 witness: the south-east corner of the default box projected on a 3x2
\* raster to (3, 2).
C13_SouthEastCornerProjected ==
    /\ ppc = "done"
    /\ pj.map_bounds = CATALUNYA_BOUNDS
    /\ pj.lat = CATALUNYA_BOUNDS[1] /\ pj.lon = CATALUNYA_BOUNDS[4]
    /\ pj.img_size = <<3, 2>>
    /\ pj.xy = <<3, 2>>

OutsideBox(b, lat, lon) ==
    lat < b[1] \/ lat > b[3] \/ lon < b[2] \/ lon > b[4]

\* C14: latlon_to_pixels does no clamping: every coordinate outside the
\* bounding box projects to a pixel coordinate outside [0,width) x [0,height).
C14_OutsideProjectsOutside ==
    (ppc = "done" /\ OutsideBox(pj.map_bounds, pj.lat, pj.lon)) =>
        ~(/\ 0 <= pj.xy[1] /\ pj.xy[1] < pj.img_size[1]
          /\ 0 <= pj.xy[2] /\ pj.xy[2] < pj.img_size[2])

\* What the code keeps of C14: a coordinate beyond the east or the south edge
\* of the box projects outside the raster, and nothing is clamped to the
\* last column or row.
C14_EastSouthProjectsOutside ==
    ppc = "done" =>
        /\ pj.lon > pj.map_bounds[4] => pj.xy[1] >= pj.img_size[1]
        /\ pj.lat < pj.map_bounds[1] => pj.xy[2] >= pj.img_size[2]

---------------------------------------------------------------------------
(* The verdict of one route, process_frames lines 382-399.                 *)

RECURSIVE Gcd(_, _)
Gcd(a, b) == IF b = 0 THEN a ELSE Gcd(b, a % b)

\* a quotient n / d as a reduced fraction <<numerator, denominator>>
Ratio(n, d) == IF n = 0 THEN <<0, 1>> ELSE <<n \div Gcd(n, d), d \div Gcd(n, d)>>

\* line 382
RECURSIVE intensities_of(_)
intensities_of(pixels) ==
    IF pixels = <<>> THEN <<>>
    ELSE <<get_pixel_intensity(Head(pixels))>> \o intensities_of(Tail(pixels))

\* faulty variant: the comparison written >= instead of >
RECURSIVE count_rain_ge(_)
count_rain_ge(ints) ==
    IF ints = <<>> THEN 0
    ELSE (IF Head(ints) >= NO_RAIN THEN 1 ELSE 0) + count_rain_ge(Tail(ints))

\* line 384: sum(1 for i in intensities if i > NO_RAIN)
RECURSIVE count_rain(_)
count_rain(ints) ==
    IF ints = <<>> THEN 0
    ELSE (IF Head(ints) > NO_RAIN THEN 1 ELSE 0) + count_rain(Tail(ints))

\* line 387: max(intensities) if intensities else NO_RAIN
RECURSIVE max_intensity_of(_)
max_intensity_of(ints) ==
    IF ints = <<>> THEN NO_RAIN
    ELSE IF Len(ints) = 1 THEN Head(ints)
    ELSE Max2(Head(ints), max_intensity_of(Tail(ints)))

\* faulty variant: the comparison written >= instead of >
rain_detected_ge(max_intensity) == max_intensity >= NO_RAIN

\* line 389
rain_detected_of(max_intensity) == max_intensity > NO_RAIN

\* lines 393-399
route_result(rain_detected, rain_intensity_str, rain_ratio, ts) ==
    [will_rain |-> rain_detected,
     rain_intensity |-> rain_intensity_str,
     rain_ratio |-> rain_ratio,
     start_time |-> ts[1],
     end_time |-> ts[Len(ts)]]

\* lines 405-411: the result stored by the except branch
error_result(ts) ==
    [will_rain |-> FALSE,
     rain_intensity |-> "None",
     rain_ratio |-> <<0, 1>>,
     start_time |-> ts[1],
     end_time |-> ts[Len(ts)]]

\* lines 378-390: the locals of one iteration of the route loop
route_locals(bbox, composite, route) ==
    LET size == <<composite.width, composite.height>>
        home == latlon_to_pixels(bbox, route.home[1], route.home[2], size)
        work == latlon_to_pixels(bbox, route.work[1], route.work[2], size)
        line == get_pixels_along_line(composite, home[1], home[2], work[1], work[2])
        pixels == line.pixels
        ints == intensities_of(pixels)
        rain_pixels == count_rain(ints)
        valid_pixels == Len(pixels)
        max_intensity == max_intensity_of(ints)
    IN  [user |-> route.user,
         x_home |-> home[1], y_home |-> home[2],
         x_work |-> work[1], y_work |-> work[2],
         path |-> line.visited,
         pixels |-> pixels,
         rain_pixels |-> rain_pixels,
         valid_pixels |-> valid_pixels,
         rain_ratio |-> IF valid_pixels > 0 THEN Ratio(rain_pixels, valid_pixels)
                                             ELSE <<0, 1>>,
         max_intensity |-> max_intensity,
         rain_detected |-> rain_detected_of(max_intensity),
         rain_intensity_str |-> RAIN_INTENSITY_MAP(max_intensity)]

---------------------------------------------------------------------------
(* Spec: process_frames, lines 352-413, on scraped frames and one route.   *)
(*                                                                         *)
(* The frames of a run share their size.  Each frame is the gray basemap   *)
(* with at most one painted pixel, at one of the cells the routes below    *)
(* cross; array operations are elementwise, so what happens at one cell    *)
(* happens at every cell.  A cell thus sees every sequence of palette      *)
(* colours over the frames, and different frames may paint different       *)
(* cells.                                                                  *)

Width == 3

Height == 2

MaxFrames == 2

Positions == (0 .. Width - 1) \X (0 .. Height - 1)

GRAY == <<128, 128, 128>>    \* basemap: no rain for both classifiers

RED == <<255, 0, 0>>         \* Heavy

BLUE == <<0, 100, 200>>      \* Light

TEAL == <<0, 230, 230>>      \* marked by the array mask, None for the scalar

WHITE == <<255, 255, 255>>   \* no rain for both classifiers

Palette == {RED, BLUE, TEAL, WHITE}

BlankImage == [width |-> Width, height |-> Height, px |-> [p \in Positions |-> GRAY]]

PaintCells == Positions \cap {<<0, 0>>, <<1, 0>>, <<1, 1>>, <<2, 1>>}

SparseImages ==
    {BlankImage} \cup
    {[BlankImage EXCEPT !.px[q] = c] : q \in PaintCells, c \in Palette}

\* time labels as scraped from the page (line 280-283): display strings
TimeLabels == <<"23:48", "23:54", "00:00", "00:06", "00:12", "00:18">>

FrameLists ==
    UNION {{[i \in 1 .. n |-> [time |-> TimeLabels[i], image |-> f[i]]] :
               f \in [1 .. n -> SparseImages]} : n \in 0 .. MaxFrames}

\* (lat, lon) in hundredths of a degree
NW_CORNER == <<4295, 14>>      \* (lat_max, lon_min)

SE_CORNER == <<4067, 350>>     \* (lat_min, lon_max)

BARCELONA == <<4139, 217>>

TARRAGONA_SEA == <<4100, 320>>

FAR_NORTH_EAST == <<4400, 500>>    \* outside the bounding box

FAR_WEST == <<4200, -300>>         \* outside the bounding box

RoutePairs ==
    {<<NW_CORNER, TARRAGONA_SEA>>, <<TARRAGONA_SEA, NW_CORNER>>,
     <<SE_CORNER, FAR_NORTH_EAST>>, <<FAR_WEST, TARRAGONA_SEA>>,
     <<BARCELONA, BARCELONA>>}

\* app.py line 87: radar_checker.routes = [{"user": ..., "home": ..., "work": ...}]
RouteLists ==
    {<<>>} \cup {<<[user |-> "alice", home |-> hw[1], work |-> hw[2]]>> : hw \in RoutePairs}

\* the state after scrape_frames of a checker constructed with the default
\* map_bounds (line 52) and given its routes
Init ==
    /\ radar_data \in FrameLists
    /\ routes \in RouteLists
    /\ map_bounds = CATALUNYA_BOUNDS
    /\ last_composite = NoImage
    /\ last_times = <<>>
    /\ comp_array = NoImage
    /\ is_storm_base = <<>>
    /\ times = <<>>
    /\ fi = 0
    /\ results = <<>>
    /\ ri = 0
    /\ loc = <<>>
    /\ saved_maps = {}
    /\ pc = "idle"
    /\ LineIdle
    /\ ClassIdle
    /\ ProjIdle
    /\ CallIdle
    /\ AppIdle

\* faulty variant: the composite is computed and stored before the test for
\* missing radar data
ProcessFramesNoData_after_storing ==
    /\ pc = "idle"
    /\ radar_data = <<>>
    /\ last_composite' = NoImage
    /\ last_times' = <<>>
    /\ results' = <<>>
    /\ pc' = "done"
    /\ UNCHANGED <<radar_data, routes, map_bounds, comp_array,
                   is_storm_base, times, fi, ri, loc, saved_maps,
                   lineVars, classVars, projVars, callVars, appVars>>

\* lines 359-361: no radar data, return {}
ProcessFramesNoData ==
    /\ pc = "idle"
    /\ radar_data = <<>>
    /\ results' = <<>>
    /\ pc' = "done"
    /\ UNCHANGED <<radar_data, routes, map_bounds, last_composite, last_times, comp_array,
                   is_storm_base, times, fi, ri, loc, saved_maps,
                   lineVars, classVars, projVars, callVars, appVars>>

\* lines 363-364 entering create_composite_image, lines 325-332
CompositeStart ==
    /\ pc = "idle"
    /\ radar_data # <<>>
    /\ LET c == CompositeInit(radar_data)
       IN  /\ comp_array' = c.comp_array
           /\ is_storm_base' = c.is_storm_base
           /\ times' = c.times
    /\ fi' = 2
    /\ pc' = "fold"
    /\ UNCHANGED <<radar_data, routes, map_bounds, last_composite, last_times, results, ri,
                   loc, saved_maps, lineVars, classVars, projVars, callVars, appVars>>

\* lines 334-346: one iteration of `for frame_data in self.radar_data[1:]`
CompositeFold ==
    /\ pc = "fold"
    /\ fi <= Len(radar_data)
    /\ LET c == CompositeFoldFrame(
                   [comp_array |-> comp_array, is_storm_base |-> is_storm_base,
                    times |-> times], radar_data[fi])
       IN  /\ comp_array' = c.comp_array
           /\ is_storm_base' = c.is_storm_base
           /\ times' = c.times
    /\ fi' = fi + 1
    /\ UNCHANGED <<radar_data, routes, map_bounds, last_composite, last_times, results, ri,
                   loc, saved_maps, pc,
                   lineVars, classVars, projVars, callVars, appVars>>

\* line 348 and lines 364-373: the composite is returned and stored; its
\* channels are already 8-bit, so astype(np.uint8) changes nothing
CompositeReturn ==
    /\ pc = "fold"
    /\ fi > Len(radar_data)
    /\ last_composite' = comp_array
    /\ last_times' = times
    /\ results' = <<>>
    /\ ri' = 1
    /\ pc' = IF times = <<>> THEN "done" ELSE "routes"
    /\ UNCHANGED <<radar_data, routes, map_bounds, comp_array, is_storm_base, times, fi,
                   loc, saved_maps, lineVars, classVars, projVars, callVars, appVars>>

\* faulty variant: the results of the earlier routes are dropped
EvaluateRoute_forgets_others ==
    /\ pc = "routes"
    /\ ri <= Len(routes)
    /\ ~ZeroSpan(map_bounds)
    /\ LET l == route_locals(map_bounds, last_composite, routes[ri])
       IN  /\ loc' = l
           /\ results' = (l.user :> route_result(l.rain_detected, l.rain_intensity_str,
                                                 l.rain_ratio, last_times))
    /\ pc' = "render"
    /\ UNCHANGED <<radar_data, routes, map_bounds, last_composite, last_times, comp_array,
                   is_storm_base, times, fi, ri, saved_maps,
                   lineVars, classVars, projVars, callVars, appVars>>

\* lines 376-399: the try block up to the stored result
EvaluateRoute ==
    /\ pc = "routes"
    /\ ri <= Len(routes)
    /\ ~ZeroSpan(map_bounds)
    /\ LET l == route_locals(map_bounds, last_composite, routes[ri])
       IN  /\ loc' = l
           /\ results' = (l.user :> route_result(l.rain_detected, l.rain_intensity_str,
                                                 l.rain_ratio, last_times)) @@ results
    /\ pc' = "render"
    /\ UNCHANGED <<radar_data, routes, map_bounds, last_composite, last_times, comp_array,
                   is_storm_base, times, fi, ri, saved_maps,
                   lineVars, classVars, projVars, callVars, appVars>>

\* faulty variant: the route line is drawn on the composite itself, not on a
\* copy of it
SaveAnnotatedMap_in_place ==
    /\ pc = "render"
    /\ last_composite' =
          [last_composite EXCEPT !.px =
              [p \in DOMAIN last_composite.px |->
                  IF \E n \in 1 .. Len(loc.path) : loc.path[n] = p
                  THEN <<0, 255, 255>> ELSE last_composite.px[p]]]
    /\ saved_maps' = saved_maps \cup {loc.user}
    /\ ri' = ri + 1
    /\ pc' = "routes"
    /\ UNCHANGED <<radar_data, routes, map_bounds, last_times, comp_array,
                   is_storm_base, times, fi, results, loc,
                   lineVars, classVars, projVars, callVars, appVars>>

\* line 401, _save_annotated_map (lines 415-443) returning normally: it draws
\* on a copy of the composite and writes <user>_map.png
SaveAnnotatedMap ==
    /\ pc = "render"
    /\ saved_maps' = saved_maps \cup {loc.user}
    /\ ri' = ri + 1
    /\ pc' = "routes"
    /\ UNCHANGED <<radar_data, routes, map_bounds, last_composite, last_times, comp_array,
                   is_storm_base, times, fi, results, loc,
                   lineVars, classVars, projVars, callVars, appVars>>

\* line 401 raising (font, drawing or file error) and the except branch,
\* lines 403-411, which stores the error result for the user
SaveAnnotatedMapRaises ==
    /\ pc = "render"
    /\ results' = (loc.user :> error_result(last_times)) @@ results
    /\ ri' = ri + 1
    /\ pc' = "routes"
    /\ UNCHANGED <<radar_data, routes, map_bounds, last_composite, last_times, comp_array,
                   is_storm_base, times, fi, loc, saved_maps,
                   lineVars, classVars, projVars, callVars, appVars>>

\* lines 378-379 raising ZeroDivisionError in latlon_to_pixels and the except
\* branch, lines 403-411, which stores the error result for the user
EvaluateRouteRaises ==
    /\ pc = "routes"
    /\ ri <= Len(routes)
    /\ ZeroSpan(map_bounds)
    /\ results' = (routes[ri].user :> error_result(last_times)) @@ results
    /\ ri' = ri + 1
    /\ UNCHANGED <<radar_data, routes, map_bounds, last_composite, last_times,
                   comp_array, is_storm_base, times, fi, loc, saved_maps, pc,
                   lineVars, classVars, projVars, callVars, appVars>>

\* line 413
ProcessFramesReturn ==
    /\ pc = "routes"
    /\ ri > Len(routes)
    /\ pc' = "done"
    /\ UNCHANGED <<radar_data, routes, map_bounds, last_composite, last_times, comp_array,
                   is_storm_base, times, fi, results, ri, loc, saved_maps,
                   lineVars, classVars, projVars, callVars, appVars>>

Next ==
    \/ ProcessFramesNoData
    \/ CompositeStart
    \/ CompositeFold
    \/ CompositeReturn
    \/ EvaluateRoute
    \/ SaveAnnotatedMap
    \/ SaveAnnotatedMapRaises
    \/ ProcessFramesReturn

Spec == Init /\ [][Next]_vars

---------------------------------------------------------------------------
(* SpecCalls: successive process_frames calls on one checker, with up to   *)
(* two routes per call.  Between two calls the stored frames stay (the     *)
(* API scrapes once at startup and then serves requests) or scrape_frames  *)
(* runs again and finds no frame (lines 270, 288).  The attributes and the *)
(* written map files persist from call to call, the locals do not.         *)

MaxCalls == 2

CallImages ==
    {[BlankImage EXCEPT !.px[<<0, 0>>] = RED],
     [BlankImage EXCEPT !.px[<<1, 1>>] = BLUE]}

CallFrameLists ==
    UNION {{[i \in 1 .. n |-> [time |-> TimeLabels[i], image |-> f[i]]] :
               f \in [1 .. n -> CallImages]} : n \in 0 .. MaxFrames}

CallRoutePairs ==
    {<<NW_CORNER, TARRAGONA_SEA>>, <<BARCELONA, BARCELONA>>,
     <<SE_CORNER, FAR_NORTH_EAST>>}

\* routes of two users; a list may hold two routes of one user
CallRoutes ==
    {[user |-> u, home |-> a[1], work |-> a[2]] :
        u \in {"alice", "bob"}, a \in CallRoutePairs}

CallRouteLists ==
    {<<>>} \cup {<<r>> : r \in CallRoutes}
           \cup {<<r, q>> : r \in CallRoutes, q \in CallRoutes}

InitCalls ==
    /\ radar_data \in CallFrameLists
    /\ routes \in CallRouteLists
    /\ map_bounds = CATALUNYA_BOUNDS
    /\ last_composite = NoImage
    /\ last_times = <<>>
    /\ comp_array = NoImage
    /\ is_storm_base = <<>>
    /\ times = <<>>
    /\ fi = 0
    /\ results = <<>>
    /\ ri = 0
    /\ loc = <<>>
    /\ saved_maps = {}
    /\ pc = "idle"
    /\ LineIdle
    /\ ClassIdle
    /\ ProjIdle
    /\ CallIdle
    /\ AppIdle

\* what the caller keeps of the call that returned
CallRecord == [frames |-> radar_data, routes |-> routes, results |-> results]

\* process_frames is called again on the same checker
ProcessFramesAgain ==
    /\ pc = "done"
    /\ calls < MaxCalls
    /\ prev' = CallRecord
    /\ calls' = calls + 1
    /\ comp_array' = NoImage
    /\ is_storm_base' = <<>>
    /\ times' = <<>>
    /\ fi' = 0
    /\ results' = <<>>
    /\ ri' = 0
    /\ loc' = <<>>
    /\ pc' = "idle"
    /\ UNCHANGED <<radar_data, routes, map_bounds, last_composite, last_times,
                   saved_maps, lineVars, classVars, projVars, appVars>>

\* scrape_frames runs again and finds no frame (lines 270, 288-289), then
\* process_frames is called
ScrapeNothingAndProcessAgain ==
    /\ pc = "done"
    /\ calls < MaxCalls
    /\ radar_data # <<>>
    /\ radar_data' = <<>>
    /\ prev' = CallRecord
    /\ calls' = calls + 1
    /\ comp_array' = NoImage
    /\ is_storm_base' = <<>>
    /\ times' = <<>>
    /\ fi' = 0
    /\ results' = <<>>
    /\ ri' = 0
    /\ loc' = <<>>
    /\ pc' = "idle"
    /\ UNCHANGED <<routes, map_bounds, last_composite, last_times,
                   saved_maps, lineVars, classVars, projVars, appVars>>

NextCalls ==
    \/ Next
    \/ ProcessFramesAgain
    \/ ScrapeNothingAndProcessAgain

SpecCalls == InitCalls /\ [][NextCalls]_vars

---------------------------------------------------------------------------
(* Properties of create_composite_image.                                   *)

FrameColour(k, p) == radar_data[k].image.px[p]

FrameMasked(k, p) == _is_storm_pixel_array(FrameColour(k, p))

CompositeStored == pc \in {"routes", "render", "done"} /\ radar_data # <<>>

\* C1: write-once-on-first-rain: while the frames are folded in order, once
\* the running precipitation mask is set at a position p, no later frame
\* changes the composite colour at p (and the mask stays set), whatever
\* colour that frame has at p.
C1_WriteOnceOnFirstRain ==
    [][pc = "fold" =>
          \A p \in DOMAIN is_storm_base :
              is_storm_base[p] =>
                  /\ comp_array'.px[p] = comp_array.px[p]
                  /\ is_storm_base'[p]]_vars

\* C1 witness: frame 2 was folded over a position that frame 1 had marked,
\* frame 2 is marked there too with another colour, and the composite still
\* has frame 1's colour.
C1_LaterRainFoldedOverMarked ==
    /\ pc = "fold"
    /\ fi = 3
    /\ \E p \in Positions :
          /\ FrameMasked(1, p)
          /\ FrameMasked(2, p)
          /\ FrameColour(2, p) # FrameColour(1, p)
          /\ comp_array.px[p] = FrameColour(1, p)

\* C2: the composite of N >= 1 same-sized frames has, at every position p,
\* frame 0's colour if no frame's precipitation mask holds at p, and
\* otherwise the colour of the first frame whose mask holds at p; a single
\* frame composites to itself.
C2_FirstMaskedFrameWins ==
    CompositeStored =>
        LET N == Len(radar_data)
        IN  /\ DOMAIN last_composite.px = Positions
            /\ \A p \in Positions :
                  LET masked == {k \in 1 .. N : FrameMasked(k, p)}
                  IN  IF masked = {}
                      THEN last_composite.px[p] = FrameColour(1, p)
                      ELSE \E k \in masked :
                              /\ \A j \in masked : k <= j
                              /\ last_composite.px[p] = FrameColour(k, p)
            /\ N = 1 => last_composite = radar_data[1].image

\* C2 witness: frame0 = [red, gray, ...], frame1 = [gray, red, ...] composited
\* to [red, red, ...].
C2_TwoFramesComposited ==
    /\ CompositeStored
    /\ Len(radar_data) = 2
    /\ FrameColour(1, <<0, 0>>) = RED /\ FrameColour(2, <<0, 0>>) = GRAY
    /\ FrameColour(1, <<1, 0>>) = GRAY /\ FrameColour(2, <<1, 0>>) = RED
    /\ last_composite.px[<<0, 0>>] = RED
    /\ last_composite.px[<<1, 0>>] = RED

\* C3: the composite captures every precipitation cell of the window: if
\* get_pixel_intensity classifies the colour at p as rain in at least one
\* frame, it classifies the composite's colour at p as rain.
C3_EveryRainCellCaptured ==
    CompositeStored =>
        \A p \in Positions :
            (\E k \in 1 .. Len(radar_data) : is_rain_color(FrameColour(k, p)))
                => is_rain_color(last_composite.px[p])

---------------------------------------------------------------------------
(* Properties of the route loop of process_frames.                         *)

TierOfName(name) ==
    CASE name = "Light" -> LIGHT_RAIN
      [] name = "Moderate" -> MODERATE_RAIN
      [] name = "Heavy" -> HEAVY_RAIN
      [] OTHER -> NO_RAIN

FirstRainOnPath(T) ==
    \E p \in Positions, i \in 1 .. Len(radar_data) :
        /\ \E n \in 1 .. Len(loc.path) : loc.path[n] = p
        /\ get_pixel_intensity(FrameColour(i, p)) = T
        /\ T > NO_RAIN
        /\ \A j \in 1 .. i - 1 : ~FrameMasked(j, p)

\* C7: end to end: if some frame has, at a pixel on the rasterized path of a
\* route, a colour of tier T > None and no earlier frame's mask holds there,
\* the route's returned result has will_rain = true and an intensity of at
\* least T, with at least one rain pixel counted.
C7_RainOnPathReported ==
    (pc = "done" /\ radar_data # <<>> /\ routes # <<>>) =>
        \A T \in {LIGHT_RAIN, MODERATE_RAIN, HEAVY_RAIN} :
            FirstRainOnPath(T) =>
                /\ results[loc.user].will_rain
                /\ TierOfName(results[loc.user].rain_intensity) >= T
                /\ loc.rain_pixels >= 1

\* The same statement about the result computed from the samples (line 399),
\* before the annotated map is rendered.
C7_RainOnPathAggregated ==
    pc = "render" =>
        \A T \in {LIGHT_RAIN, MODERATE_RAIN, HEAVY_RAIN} :
            FirstRainOnPath(T) =>
                /\ results[loc.user].will_rain
                /\ TierOfName(results[loc.user].rain_intensity) >= T
                /\ loc.rain_pixels >= 1

\* C8: a route whose every stepped pixel lies outside the raster is not an
\* error: with a non-empty frame list process_frames returns, for that route,
\* will_rain = False, intensity None and rain_ratio = 0.
C8_OffRasterRouteIsNoRain ==
    (pc = "done" /\ radar_data # <<>> /\ routes # <<>>
       /\ InBoundsOnly(last_composite, loc.path) = <<>>) =>
        /\ loc.user \in DOMAIN results
        /\ results[loc.user].will_rain = FALSE
        /\ results[loc.user].rain_intensity = "None"
        /\ results[loc.user].rain_ratio = <<0, 1>>

\* C8 witness: process_frames returned for a route stepped wholly outside the
\* raster, while the composite holds rain and the map was rendered.
C8_OffRasterRouteReturned ==
    /\ pc = "done"
    /\ radar_data # <<>> /\ routes # <<>>
    /\ Len(loc.path) > 1
    /\ InBoundsOnly(last_composite, loc.path) = <<>>
    /\ \E p \in Positions : is_rain_color(last_composite.px[p])
    /\ loc.user \in saved_maps
    /\ results[loc.user].will_rain = FALSE

---------------------------------------------------------------------------
(* Properties of the route loop on degenerate routes.                      *)

\* the route of the current iteration projects home and work to one pixel
ZeroLengthRoute ==
    loc.x_home = loc.x_work /\ loc.y_home = loc.y_work

---------------------------------------------------------------------------
(* Properties of the timestamps.                                           *)

\* the time labels of the stored frames, in input order
FrameTimes == [i \in 1 .. Len(radar_data) |-> radar_data[i].time]

\* C15: create_composite_image returns the frame timestamps in input order,
\* one per frame, and every route result's start_time and end_time are the
\* first and the last element of that list.
C15_TimesInInputOrder ==
    /\ pc = "fold" =>
          /\ Len(times) = fi - 1
          /\ \A i \in 1 .. fi - 1 : times[i] = radar_data[i].time
    /\ CompositeStored =>
          /\ Len(last_times) = Len(radar_data)
          /\ last_times = FrameTimes
          /\ \A u \in DOMAIN results :
                /\ results[u].start_time = last_times[1]
                /\ results[u].end_time = last_times[Len(last_times)]

\* C15 witness: process_frames returned a route result built from two frames,
\* with the first frame's label as start and the second's as end.
C15_TwoFrameResultReturned ==
    /\ pc = "done"
    /\ Len(radar_data) = 2
    /\ last_times = <<"23:48", "23:54">>
    /\ "alice" \in DOMAIN results
    /\ results["alice"].start_time = "23:48"
    /\ results["alice"].end_time = "23:54"

---------------------------------------------------------------------------
(* Properties of successive process_frames calls.                          *)

\* C16: with zero frames, create_composite_image returns a null composite
\* and an empty timestamp list without raising, and process_frames returns an
\* empty result without evaluating any route and without changing
\* last_composite or last_times.
C16_NoFramesNoChange ==
    [][(pc = "idle" /\ radar_data = <<>>) =>
          (/\ create_composite_image(radar_data) = [image |-> NoImage, times |-> <<>>]
           /\ pc' = "done"
           /\ results' = <<>>
           /\ last_composite' = last_composite
           /\ last_times' = last_times
           /\ loc' = loc /\ ri' = ri
           /\ saved_maps' = saved_maps)]_vars

\* C16 witness: after a call that stored a composite, the frames were lost
\* and a second call with routes returned the empty result, the composite
\* and the timestamps of the first call still stored.
C16_EmptyCallAfterStoredComposite ==
    /\ pc = "done"
    /\ calls = 2
    /\ radar_data = <<>>
    /\ routes # <<>>
    /\ results = <<>>
    /\ loc = <<>>
    /\ last_composite # NoImage
    /\ last_times # <<>>

\* C19: the composite is read-only during route evaluation: within one
\* process_frames run, evaluating and rendering any number of routes leaves
\* every pixel of last_composite, the timestamp list and the stored source
\* frames unchanged.
C19_CompositeReadOnly ==
    [][(pc = "routes" \/ pc = "render") =>
          (/\ last_composite' = last_composite
           /\ last_times' = last_times
           /\ radar_data' = radar_data)]_vars

\* the same as a statement about states: while and after the routes are
\* evaluated, what is stored is what create_composite_image returns on the
\* stored frames
C19_StoredCompositeIsTheComputedOne ==
    CompositeStored =>
        /\ last_composite = create_composite_image(radar_data).image
        /\ last_times = create_composite_image(radar_data).times

\* C19 witness: a run over two frames returned after it evaluated and
\* rendered two routes, one of them crossing a rain pixel of the composite.
C19_TwoRoutesRendered ==
    /\ pc = "done"
    /\ Len(radar_data) = 2
    /\ Len(routes) = 2
    /\ saved_maps = {"alice", "bob"}
    /\ results["alice"].will_rain
    /\ last_composite = create_composite_image(radar_data).image

\* C20: idempotence: calling process_frames repeatedly with the same stored
\* frames and the same routes returns identical results on every call.
C20_RepeatedCallsSameResults ==
    (pc = "done" /\ calls >= 2) =>
        ((prev.frames = radar_data /\ prev.routes = routes)
            => results = prev.results)

\* What the code keeps of C20: the verdict computed for a route at line 393
\* is a function of the stored frames, the bounding box and the route.
C20_ComputedVerdictIsDetermined ==
    pc = "render" =>
        LET l == route_locals(map_bounds, create_composite_image(radar_data).image,
                              routes[ri])
        IN  results[loc.user] =
                route_result(l.rain_detected, l.rain_intensity_str, l.rain_ratio,
                             create_composite_image(radar_data).times)

---------------------------------------------------------------------------
(* SpecShapes: create_composite_image on frames of different sizes.        *)
(*                                                                         *)
(* The arrays of a frame have the shape (height, width[, channels]).       *)
(* NumPy combines arrays of different shapes by broadcasting: two sizes    *)
(* along an axis are compatible when they are equal or one of them is 1,   *)
(* and the side of size 1 is repeated; incompatible sizes raise            *)
(* ValueError.  An in-place operation (|=) also raises ValueError when the *)
(* broadcast shape is not the shape of its left operand.  The exception    *)
(* leaves create_composite_image and process_frames (line 364 is outside   *)
(* the try block).                                                         *)

\* two sizes along one axis can be broadcast together
np_compatible(a, b) == a = b \/ a = 1 \/ b = 1

\* the size along one axis of the broadcast of sizes a and b
np_broadcast_size(a, b) == IF a = 1 THEN b ELSE a

\* line 342, `is_storm_frame & ~is_storm_base`, raises ValueError
MaskAndRaises(frame, base) ==
    \/ ~np_compatible(frame.width, base.width)
    \/ ~np_compatible(frame.height, base.height)

\* line 346, `is_storm_base |= new_storm_mask`, raises ValueError: the mask
\* has the broadcast shape of frame and base, which must be the base's
MaskOrInPlaceRaises(frame, base) ==
    \/ np_broadcast_size(frame.width, base.width) # base.width
    \/ np_broadcast_size(frame.height, base.height) # base.height

\* an image repeated along its axes of size 1 up to width x height
np_broadcast_to(img, width, height) ==
    [width |-> width, height |-> height,
     px |-> [p \in (0 .. width - 1) \X (0 .. height - 1) |->
                img.px[<<IF img.width = 1 THEN 0 ELSE p[1],
                         IF img.height = 1 THEN 0 ELSE p[2]>>]]]

\* frame sizes: 1, one less than the full side, and the full side, along
\* each axis
ShapeWidths == {1, Max2(1, Width - 1), Width}

ShapeHeights == {1, Max2(1, Height - 1), Height}

\* the gray basemap with at most one red pixel, in its first or last position
ShapeImages ==
    UNION {LET blank == [width |-> w, height |-> h,
                         px |-> [p \in (0 .. w - 1) \X (0 .. h - 1) |-> GRAY]]
           IN  {blank} \cup
               {[blank EXCEPT !.px[q] = RED] : q \in {<<0, 0>>, <<w - 1, h - 1>>}}
           : w \in ShapeWidths, h \in ShapeHeights}

\* the lists of 1 to max frames
ShapeFrameLists(max) ==
    UNION {{[i \in 1 .. n |-> [time |-> TimeLabels[i], image |-> f[i]]] :
               f \in [1 .. n -> ShapeImages]} : n \in 1 .. max}

InitShapes ==
    /\ radar_data \in ShapeFrameLists(MaxFrames)
    /\ routes = <<>>
    /\ map_bounds = CATALUNYA_BOUNDS
    /\ last_composite = NoImage
    /\ last_times = <<>>
    /\ comp_array = NoImage
    /\ is_storm_base = <<>>
    /\ times = <<>>
    /\ fi = 0
    /\ results = <<>>
    /\ ri = 0
    /\ loc = <<>>
    /\ saved_maps = {}
    /\ pc = "idle"
    /\ LineIdle
    /\ ClassIdle
    /\ ProjIdle
    /\ CallIdle
    /\ AppIdle

\* lines 334-346 on a frame NumPy can broadcast into the shape of the base:
\* the loop body runs on the repeated frame
CompositeFoldBroadcast ==
    /\ pc = "fold"
    /\ fi <= Len(radar_data)
    /\ ~MaskAndRaises(radar_data[fi].image, comp_array)
    /\ ~MaskOrInPlaceRaises(radar_data[fi].image, comp_array)
    /\ LET frame == [time |-> radar_data[fi].time,
                     image |-> np_broadcast_to(radar_data[fi].image,
                                               comp_array.width, comp_array.height)]
           c == CompositeFoldFrame(
                   [comp_array |-> comp_array, is_storm_base |-> is_storm_base,
                    times |-> times], frame)
       IN  /\ comp_array' = c.comp_array
           /\ is_storm_base' = c.is_storm_base
           /\ times' = c.times
    /\ fi' = fi + 1
    /\ UNCHANGED <<radar_data, routes, map_bounds, last_composite, last_times,
                   results, ri, loc, saved_maps, pc,
                   lineVars, classVars, projVars, callVars, appVars>>

\* line 342 or line 346 raises ValueError, which leaves process_frames
CompositeFoldRaises ==
    /\ pc = "fold"
    /\ fi <= Len(radar_data)
    /\ \/ MaskAndRaises(radar_data[fi].image, comp_array)
       \/ MaskOrInPlaceRaises(radar_data[fi].image, comp_array)
    /\ pc' = "raised"
    /\ UNCHANGED <<radar_data, routes, map_bounds, last_composite, last_times,
                   comp_array, is_storm_base, times, fi, results, ri, loc,
                   saved_maps, lineVars, classVars, projVars, callVars, appVars>>

NextShapes ==
    \/ CompositeStart
    \/ CompositeFoldBroadcast
    \/ CompositeFoldRaises
    \/ CompositeReturn
    \/ ProcessFramesReturn

SpecShapes == InitShapes /\ [][NextShapes]_vars

\* frame k has the width and the height of the first frame
SameSizeAsFirst(k) ==
    /\ radar_data[k].image.width = radar_data[1].image.width
    /\ radar_data[k].image.height = radar_data[1].image.height

\* C17: whenever some frame's width or height differs from the first
\* frame's, the compositing call fails with an error raised to the caller; it
\* never returns a composite (built by broadcasting, truncating or resizing a
\* frame), also when the differing frame has a dimension of size 1.
C17_SizeMismatchRaises ==
    /\ pc \in {"routes", "done"} =>
          \A k \in 1 .. Len(radar_data) : SameSizeAsFirst(k)
    /\ pc = "raised" =>
          \E k \in 1 .. Len(radar_data) : ~SameSizeAsFirst(k)

\* What the code keeps of C17: a frame that differs from the first one along
\* an axis where its own size is not 1 makes the call raise.
C17_NonUnitMismatchRaises ==
    pc \in {"routes", "done"} =>
        \A k \in 1 .. Len(radar_data) :
            /\ radar_data[k].image.width \in {radar_data[1].image.width, 1}
            /\ radar_data[k].image.height \in {radar_data[1].image.height, 1}

---------------------------------------------------------------------------
(* SpecBounds: process_frames on a checker constructed with any bounding   *)
(* box, well formed or not.  __init__ stores map_bounds as given (line     *)
(* 62); the first use of it is the projection of a route's end points.     *)

\* <<lat_min, lon_min, lat_max, lon_max>>: the default box and the same box
\* with an axis inverted or collapsed
BoundsBoxes ==
    {CATALUNYA_BOUNDS,
     <<4295, 14, 4067, 350>>,      \* lat_min > lat_max
     <<4067, 350, 4295, 14>>,      \* lon_min > lon_max
     <<4295, 350, 4067, 14>>,      \* both inverted
     <<4067, 14, 4067, 350>>,      \* lat_min = lat_max
     <<4067, 14, 4295, 14>>}       \* lon_min = lon_max

Malformed(bbox) == bbox[1] >= bbox[3] \/ bbox[2] >= bbox[4]

BoundsRouteLists ==
    {<<>>} \cup
    {<<[user |-> "alice", home |-> a[1], work |-> a[2]]>> : a \in CallRoutePairs}

InitBounds ==
    /\ radar_data \in CallFrameLists
    /\ routes \in BoundsRouteLists
    /\ map_bounds \in BoundsBoxes
    /\ last_composite = NoImage
    /\ last_times = <<>>
    /\ comp_array = NoImage
    /\ is_storm_base = <<>>
    /\ times = <<>>
    /\ fi = 0
    /\ results = <<>>
    /\ ri = 0
    /\ loc = <<>>
    /\ saved_maps = {}
    /\ pc = "idle"
    /\ LineIdle
    /\ ClassIdle
    /\ ProjIdle
    /\ CallIdle
    /\ AppIdle

NextBounds ==
    \/ Next
    \/ EvaluateRouteRaises

SpecBounds == InitBounds /\ [][NextBounds]_vars

\* C18: a malformed bounding box (lat_min >= lat_max or lon_min >= lon_max)
\* is a fatal configuration error raised to the caller: a checker constructed
\* with it never produces a route result.
C18_MalformedBoxNoResult ==
    Malformed(map_bounds) => results = <<>>

\* What the code does with a collapsed axis: nothing is raised to the caller
\* and every route gets the result of the except branch.
C18_ZeroSpanGivesErrorResult ==
    (pc = "done" /\ ZeroSpan(map_bounds) /\ radar_data # <<>>) =>
        \A i \in 1 .. Len(routes) :
            /\ routes[i].user \in DOMAIN results
            /\ results[routes[i].user] = error_result(last_times)

---------------------------------------------------------------------------
(* Properties of runs over several routes.                                 *)

\* the users of the supplied routes
RouteUsers == {routes[i].user : i \in 1 .. Len(routes)}

\* the result of process_frames on the stored frames with `route` as the only
\* route, its map rendered or its rendering having raised
ResultAlone(route, rendered) ==
    LET c == create_composite_image(radar_data)
        l == route_locals(map_bounds, c.image, route)
    IN  IF rendered
        THEN route_result(l.rain_detected, l.rain_intensity_str, l.rain_ratio, c.times)
        ELSE error_result(c.times)

\* C21: with a non-empty frame list, process_frames returns exactly one
\* result per distinct route identifier supplied, and for routes with distinct
\* identifiers each route's result equals the result of evaluating that route
\* alone (with the same outcome of its rendering), whatever the other routes
\* in the list and whatever their order.
C21_OneResultPerRouteAsAlone ==
    (pc = "done" /\ radar_data # <<>>) =>
        /\ DOMAIN results = RouteUsers
        /\ \A i \in 1 .. Len(routes) :
              (\A j \in 1 .. Len(routes) : routes[j].user = routes[i].user => j = i) =>
                  LET u == routes[i].user
                  IN  /\ results[u] \in {ResultAlone(routes[i], TRUE),
                                         ResultAlone(routes[i], FALSE)}
                      /\ calls = 1 =>
                            results[u] = ResultAlone(routes[i], u \in saved_maps)

\* C21 witness: a run returned for two routes of two users, listed bob first,
\* both rendered, with rain for alice only.
C21_TwoUsersReturned ==
    /\ pc = "done"
    /\ radar_data # <<>>
    /\ Len(routes) = 2
    /\ routes[1].user = "bob" /\ routes[2].user = "alice"
    /\ saved_maps = {"alice", "bob"}
    /\ results["alice"].will_rain
    /\ ~results["bob"].will_rain

---------------------------------------------------------------------------
(* Properties of the rendering step.                                       *)

\* C24: the verdict of a route depends only on the sampled pixels: a failure
\* while rendering or saving the annotated map for a route never changes that
\* route's will_rain, intensity or rain_ratio from the values computed from
\* its samples.
C24_RenderFailureKeepsVerdict ==
    [][pc = "render" =>
          (/\ results'[loc.user].will_rain = loc.rain_detected
           /\ results'[loc.user].rain_intensity = loc.rain_intensity_str
           /\ results'[loc.user].rain_ratio = loc.rain_ratio)]_vars

\* What the code keeps of C24: when the map is rendered and saved, the
\* returned verdict is the one computed from the samples.
C24_RenderedRouteKeepsVerdict ==
    (pc = "done" /\ radar_data # <<>> /\ routes # <<>> /\ loc.user \in saved_maps) =>
        /\ results[loc.user].will_rain = loc.rain_detected
        /\ results[loc.user].rain_intensity = loc.rain_intensity_str
        /\ results[loc.user].rain_ratio = loc.rain_ratio

\* the locals of the route loop for the current route with home and work
\* exchanged
ReverseRouteLocals ==
    route_locals(map_bounds, last_composite,
                 [user |-> routes[ri].user, home |-> routes[ri].work,
                  work |-> routes[ri].home])

\* The consequence C25 draws for the verdict: exchanging home and work gives
\* the same will_rain, intensity and rain_ratio.  The code does not keep it.
C25_VerdictDirectionSymmetric ==
    pc = "render" =>
        /\ ReverseRouteLocals.rain_detected = loc.rain_detected
        /\ ReverseRouteLocals.rain_intensity_str = loc.rain_intensity_str
        /\ ReverseRouteLocals.rain_ratio = loc.rain_ratio

---------------------------------------------------------------------------
(* SpecApi: the /check_rain/ endpoint of app.py and app_mobile.py (the two *)
(* files hold the same startup_event and check_rain) around one shared     *)
(* RadarRainChecker.  startup_event scrapes once; then requests are served *)
(* on the single event loop.  A coroutine keeps the loop until it awaits   *)
(* or returns; process_frames runs as in Spec, step by step, inside the    *)
(* handler that called it.                                                 *)

\* app.py line 13, app_mobile.py line 18: (40.65, -0.92, 42.95, 4.55)
MAP_BOUNDS == <<4065, -92, 4295, 455>>

LLEIDA == <<4162, 62>>

GIRONA == <<4198, 282>>

\* the geocoder's answers (lines 127-135): the coordinates of the places it
\* knows; for any other address it finds no location
Gazetteer ==
    [a \in {"Lleida", "Barcelona", "Girona"} |->
        CASE a = "Lleida" -> LLEIDA
          [] a = "Barcelona" -> BARCELONA
          [] a = "Girona" -> GIRONA]

\* line 133: `if not location: raise ValueError`, re-raised at line 137
GeocodeRaises(address) == address \notin DOMAIN Gazetteer

\* RadarRainChecker.get_coordinates_from_address, lines 116-137, when it
\* returns
get_coordinates_from_address(address) == Gazetteer[address]

\* the request bodies (class RouteIn); vehicle keeps its default
RouteIns ==
    {[user |-> u, home |-> a[1], work |-> a[2], vehicle |-> "bike"] :
        u \in {"alice", "bob"},
        a \in {<<"Lleida", "Barcelona">>, <<"Girona", "Girona">>,
               <<"Atlantis", "Girona">>}}

\* the concurrent requests
Requests == {1, 2}

NoResponse == <<>>

\* Python values of two types, as `results.get(route.user, False)` yields
py_dict(d) == [type |-> "dict", value |-> d]

py_bool(b) == [type |-> "bool", value |-> b]

\* truth value of a Python object: a bool is itself, a dict is true unless
\* it is empty; a result dict has five keys
py_truth(v) == IF v.type = "bool" THEN v.value ELSE DOMAIN v.value # {}

\* results.get(route.user, False), line 97 / 121
results_get(res, user) ==
    IF user \in DOMAIN res THEN py_dict(res[user]) ELSE py_bool(FALSE)

\* what _save_annotated_map (lines 415-443) draws and writes for the route
\* of the locals l: the copy of the composite, the two markers, the line and
\* the title
annotated_map(composite, ts, l) ==
    [composite |-> composite,
     home |-> <<l.x_home, l.y_home>>,
     work |-> <<l.x_work, l.y_work>>,
     line_color |-> IF l.rain_detected THEN "red" ELSE "green",
     title |-> <<l.user, <<ts[1], ts[Len(ts)]>>,
                 IF l.rain_detected THEN l.rain_intensity_str ELSE "No significant rain">>]

\* base64.b64encode(f.read()).decode("utf-8"): the text that encodes the file
b64encode(file) == [base64 |-> file]

\* the places of check_rain at which the coroutine gives the event loop
\* away: faulty variant with an await between the assignment of
\* radar_checker.routes and the call of process_frames
AwaitPoints_before_processing == {"process"}

\* check_rain is `async def` and holds no await: it runs to its response
AwaitPoints == {}

\* request r may take its next step
Runs(r) ==
    \/ loop = r
    \/ loop = 0 /\ requests[r].pc \in {"arrived"} \cup AwaitPoints

\* who holds the loop when the running request has moved to position p
LoopAfter(r, p) == IF p \in AwaitPoints \cup {"responded"} THEN 0 ELSE r

HTTPException(status_code, detail) == [status |-> status_code, detail |-> detail]

\* the checker as constructed at module load (lines 19-23 / 24-28), the flag
\* (line 26 / 31), and the requests that will arrive
InitApi ==
    /\ radar_data = <<>>
    /\ routes = <<>>
    /\ map_bounds = MAP_BOUNDS
    /\ last_composite = NoImage
    /\ last_times = <<>>
    /\ comp_array = NoImage
    /\ is_storm_base = <<>>
    /\ times = <<>>
    /\ fi = 0
    /\ results = <<>>
    /\ ri = 0
    /\ loc = <<>>
    /\ saved_maps = {}
    /\ pc = "none"
    /\ radar_data_scraped = FALSE
    /\ startup = "starting"
    /\ requests \in [Requests -> {[route |-> q, pc |-> "arrived",
                                   home_coords |-> <<>>, work_coords |-> <<>>,
                                   response |-> NoResponse] : q \in RouteIns}]
    /\ loop = 0
    /\ LineIdle
    /\ ClassIdle
    /\ ProjIdle
    /\ CallIdle
    /\ SchedIdle
    /\ BgIdle
    /\ TgIdle

\* startup_event, the try block running to its end (lines 62-70 / 87-94)
StartupScrapes ==
    /\ startup = "starting"
    /\ radar_data' \in CallFrameLists
    /\ radar_data_scraped' = TRUE
    /\ startup' = "ok"
    /\ UNCHANGED <<routes, map_bounds, last_composite, last_times, comp_array,
                   is_storm_base, times, fi, results, ri, loc, saved_maps, pc,
                   requests, loop,
                   lineVars, classVars, projVars, callVars, schedVars, bgVars, tgVars>>

\* startup_event, open_radar_page or scrape_frames raising: the frames
\* appended before the exception stay, the except branch only prints
StartupRaises ==
    /\ startup = "starting"
    /\ radar_data' \in CallFrameLists
    /\ startup' = "failed"
    /\ UNCHANGED <<routes, map_bounds, last_composite, last_times, comp_array,
                   is_storm_base, times, fi, results, ri, loc, saved_maps, pc,
                   radar_data_scraped, requests, loop,
                   lineVars, classVars, projVars, callVars, schedVars, bgVars, tgVars>>

\* faulty variant: the request goes on whatever the flag
CheckRainGate_no_gate(r) ==
    /\ startup # "starting"
    /\ requests[r].pc = "arrived"
    /\ Runs(r)
    /\ requests' = [requests EXCEPT ![r].pc = "geocode"]
    /\ loop' = LoopAfter(r, "geocode")
    /\ UNCHANGED <<engineVars, radar_data_scraped, startup,
                   lineVars, classVars, projVars, callVars, schedVars, bgVars, tgVars>>

\* check_rain, lines 78-80 / 102-104: the server takes requests once
\* startup_event has returned
CheckRainGate(r) ==
    /\ startup # "starting"
    /\ requests[r].pc = "arrived"
    /\ Runs(r)
    /\ IF ~radar_data_scraped
       THEN /\ requests' = [requests EXCEPT
                   ![r].pc = "responded",
                   ![r].response = HTTPException(503, "Radar data not available yet")]
            /\ loop' = LoopAfter(r, "responded")
       ELSE /\ requests' = [requests EXCEPT ![r].pc = "geocode"]
            /\ loop' = LoopAfter(r, "geocode")
    /\ UNCHANGED <<engineVars, radar_data_scraped, startup,
                   lineVars, classVars, projVars, callVars, schedVars, bgVars, tgVars>>

\* lines 83-84 / 107-108; an exception of the geocoder reaches the handler
\* at lines 119-121 / 144-146
Geocode(r) ==
    /\ requests[r].pc = "geocode"
    /\ Runs(r)
    /\ LET q == requests[r].route
       IN  IF GeocodeRaises(q.home) \/ GeocodeRaises(q.work)
           THEN /\ requests' = [requests EXCEPT
                       ![r].pc = "responded",
                       ![r].response = HTTPException(500, "An error occurred")]
                /\ loop' = LoopAfter(r, "responded")
           ELSE /\ requests' = [requests EXCEPT
                       ![r].pc = "routes",
                       ![r].home_coords = get_coordinates_from_address(q.home),
                       ![r].work_coords = get_coordinates_from_address(q.work)]
                /\ loop' = LoopAfter(r, "routes")
    /\ UNCHANGED <<engineVars, radar_data_scraped, startup,
                   lineVars, classVars, projVars, callVars, schedVars, bgVars, tgVars>>

\* line 87 / 111: radar_checker.routes = [{...}]
SetRoutes(r) ==
    /\ requests[r].pc = "routes"
    /\ Runs(r)
    /\ routes' = <<[user |-> requests[r].route.user,
                    home |-> requests[r].home_coords,
                    work |-> requests[r].work_coords]>>
    /\ requests' = [requests EXCEPT ![r].pc = "process"]
    /\ loop' = LoopAfter(r, "process")
    /\ UNCHANGED <<radar_data, map_bounds, last_composite, last_times, comp_array,
                   is_storm_base, times, fi, results, ri, loc, saved_maps, pc,
                   radar_data_scraped, startup,
                   lineVars, classVars, projVars, callVars, schedVars, bgVars, tgVars>>

\* lines 90-91 / 114-115: process_frames is entered with a fresh output
\* directory
CallProcessFrames(r) ==
    /\ requests[r].pc = "process"
    /\ Runs(r)
    /\ pc \in {"none", "done"}
    /\ comp_array' = NoImage
    /\ is_storm_base' = <<>>
    /\ times' = <<>>
    /\ fi' = 0
    /\ results' = <<>>
    /\ ri' = 0
    /\ loc' = <<>>
    /\ saved_maps' = {}
    /\ pc' = "idle"
    /\ requests' = [requests EXCEPT ![r].pc = "processing"]
    /\ loop' = LoopAfter(r, "processing")
    /\ UNCHANGED <<radar_data, routes, map_bounds, last_composite, last_times,
                   radar_data_scraped, startup,
                   lineVars, classVars, projVars, callVars, schedVars, bgVars, tgVars>>

\* lines 93-115 / 117-140 once process_frames has returned: the response
\* (the mobile API adds a timestamp to it)
Respond(r) ==
    /\ requests[r].pc = "processing"
    /\ Runs(r)
    /\ pc = "done"
    /\ LET q == requests[r].route
           will_rain == results_get(results, q.user)
           response ==
               IF DOMAIN results = {}
               THEN HTTPException(500, "Failed to process radar data")
               ELSE IF q.user \notin saved_maps
               THEN HTTPException(500, "Annotated map not found")
               ELSE [status |-> 200,
                     user |-> q.user,
                     vehicle |-> q.vehicle,
                     image_b64 |-> b64encode(annotated_map(last_composite, last_times, loc)),
                     will_rain |-> will_rain,
                     weather_condition |->
                         IF py_truth(will_rain) THEN "Rain expected"
                         ELSE "No significant rain expected"]
       IN  requests' = [requests EXCEPT ![r].pc = "responded",
                                        ![r].response = response]
    /\ loop' = LoopAfter(r, "responded")
    /\ UNCHANGED <<engineVars, radar_data_scraped, startup,
                   lineVars, classVars, projVars, callVars, schedVars, bgVars, tgVars>>

NextApi ==
    \/ StartupScrapes
    \/ StartupRaises
    \/ \E r \in Requests : CheckRainGate(r)
    \/ \E r \in Requests : Geocode(r)
    \/ \E r \in Requests : SetRoutes(r)
    \/ \E r \in Requests : CallProcessFrames(r)
    \/ Next
    \/ \E r \in Requests : Respond(r)

SpecApi == InitApi /\ [][NextApi]_vars

---------------------------------------------------------------------------
(* Properties of the /check_rain/ endpoint.                                *)

Responded(r, status) ==
    requests[r].pc = "responded" /\ requests[r].response.status = status

\* the route of request r as line 87 / 111 builds it
OwnRoute(r) ==
    [user |-> requests[r].route.user,
     home |-> get_coordinates_from_address(requests[r].route.home),
     work |-> get_coordinates_from_address(requests[r].route.work)]

\* the locals, the result and the map of the engine for the route of
\* request r on the scraped frames, its map rendered
OwnLocals(r) ==
    route_locals(map_bounds, create_composite_image(radar_data).image, OwnRoute(r))

OwnResult(r) ==
    LET l == OwnLocals(r)
    IN  route_result(l.rain_detected, l.rain_intensity_str, l.rain_ratio,
                     create_composite_image(radar_data).times)

OwnMap(r) ==
    LET c == create_composite_image(radar_data)
    IN  annotated_map(c.image, c.times, OwnLocals(r))

\* C26: the /check_rain/ endpoint reports the engine's verdict: in every
\* successful response, will_rain is the boolean will_rain of the route's
\* result, and weather_condition is "Rain expected" iff that will_rain is
\* true (otherwise "No significant rain expected").
C26_ResponseReportsVerdict ==
    \A r \in Requests :
        Responded(r, 200) =>
            LET resp == requests[r].response
                verdict == OwnResult(r).will_rain
            IN  /\ resp.will_rain.type = "bool"
                /\ resp.will_rain.value = verdict
                /\ resp.weather_condition = "Rain expected" <=> verdict
                /\ resp.weather_condition = "No significant rain expected" <=> ~verdict

\* Half of C26 alone: weather_condition follows the verdict.  The code does
\* not keep it either.
C26_ConditionFollowsVerdict ==
    \A r \in Requests :
        Responded(r, 200) =>
            (requests[r].response.weather_condition = "Rain expected"
                <=> OwnResult(r).will_rain)

\* What the code keeps of C26: the will_rain of a successful response is the
\* whole result of the route, and weather_condition is "Rain expected".
C26_ResponseCarriesWholeResult ==
    \A r \in Requests :
        Responded(r, 200) =>
            /\ requests[r].response.will_rain = py_dict(OwnResult(r))
            /\ requests[r].response.weather_condition = "Rain expected"

\* C27: radar-data gating: radar_data_scraped is false until the startup
\* scrape has completed without error and is never reset afterwards; while it
\* is false every /check_rain/ request is answered with status 503 without
\* geocoding, without changing radar_checker.routes and without processing
\* frames.
C27_RadarDataGating ==
    /\ [](radar_data_scraped => startup = "ok")
    /\ [][(/\ radar_data_scraped => radar_data_scraped'
           /\ ~radar_data_scraped =>
                 \A r \in Requests :
                    requests'[r] # requests[r] =>
                       (/\ requests[r].pc = "arrived"
                        /\ requests'[r].pc = "responded"
                        /\ requests'[r].response.status = 503
                        /\ requests'[r].home_coords = <<>>
                        /\ requests'[r].work_coords = <<>>
                        /\ routes' = routes
                        /\ pc' = "none"
                        /\ UNCHANGED engineVars))]_vars

\* C27 witness: the scrape raised after a frame was stored, and both requests
\* were answered 503.
C27_BothRefusedAfterFailedStartup ==
    /\ startup = "failed"
    /\ radar_data # <<>>
    /\ ~radar_data_scraped
    /\ \A r \in Requests : Responded(r, 503)
    /\ routes = <<>>

\* C28: request isolation on the shared checker: for any interleaving of
\* concurrent /check_rain/ requests on the single event loop, each request's
\* response carries the result and the map computed for its own route,
\* although all requests overwrite the one global radar_checker.routes.
C28_ResponseForOwnRoute ==
    \A r \in Requests :
        Responded(r, 200) =>
            /\ requests[r].response.user = requests[r].route.user
            /\ requests[r].response.will_rain = py_dict(OwnResult(r))
            /\ requests[r].response.image_b64 = b64encode(OwnMap(r))

\* C28 witness: two requests of one user for different routes, one with rain
\* and one without, were both answered 200; the checker holds the route of
\* the request served last.
C28_TwoRoutesOfOneUserServed ==
    /\ \A r \in Requests : Responded(r, 200)
    /\ requests[1].route.user = requests[2].route.user
    /\ OwnRoute(1) # OwnRoute(2)
    /\ OwnResult(1).will_rain /\ ~OwnResult(2).will_rain
    /\ routes = <<OwnRoute(1)>>

---------------------------------------------------------------------------
(* SpecSchedule: the schedule store of the mobile API (app_mobile.py):     *)
(* POST /schedule_checks/, GET and DELETE /scheduled_checks/{user_id} on   *)
(* the global dict scheduled_checks.  Each handler runs to its response    *)
(* (no await); the background tasks a POST adds only compute and print a   *)
(* check time (SpecBackground) and leave the store alone.  The log records *)
(* the requests in the order they were served; a request is served at the  *)
(* instant that is its position in the log.                                *)

MaxScheduleRequests == 4

ScheduleUsers == {"alice", "bob"}

\* request bodies (class ScheduledCheckIn) without their user_id
ScheduleBodies ==
    {[home |-> "Lleida", work |-> "Barcelona", commute_times |-> ct,
      commute_days |-> <<"monday">>, push_token |-> "token", vehicle |-> "bike"] :
        ct \in {<<"08:00">>, <<"08:00", "18:30">>}}

\* lines 153-161: the stored schedule; created_at is the text of the instant
stored_schedule(body, now) ==
    [home |-> body.home,
     work |-> body.work,
     commute_times |-> body.commute_times,
     commute_days |-> body.commute_days,
     push_token |-> body.push_token,
     vehicle |-> body.vehicle,
     created_at |-> [isoformat |-> now]]

\* line 34: scheduled_checks = {}
InitSchedule ==
    /\ EngineIdle
    /\ LineIdle
    /\ ClassIdle
    /\ ProjIdle
    /\ CallIdle
    /\ ApiIdle
    /\ BgIdle
    /\ TgIdle
    /\ scheduled_checks = <<>>
    /\ log = <<>>
    /\ reply = <<>>

\* schedule_checks, lines 148-180
ScheduleChecks(user_id, body) ==
    /\ Len(log) < MaxScheduleRequests
    /\ LET now == Len(log) + 1
       IN  /\ scheduled_checks' =
                 (user_id :> stored_schedule(body, now)) @@ scheduled_checks
           /\ log' = Append(log, [method |-> "POST", user_id |-> user_id,
                                  body |-> body, now |-> now])
    /\ reply' = [status |-> 200,
                 message |-> <<"Scheduled", Len(body.commute_times), "commute checks">>,
                 user_id |-> user_id]
    /\ UNCHANGED <<engineVars, lineVars, classVars, projVars, callVars, apiVars, bgVars, tgVars>>

\* get_scheduled_checks, lines 235-245
GetScheduledChecks(user_id) ==
    /\ Len(log) < MaxScheduleRequests
    /\ log' = Append(log, [method |-> "GET", user_id |-> user_id])
    /\ reply' = IF user_id \notin DOMAIN scheduled_checks
                THEN HTTPException(404, "No scheduled checks found for this user")
                ELSE [status |-> 200, user_id |-> user_id,
                      schedule |-> scheduled_checks[user_id]]
    /\ UNCHANGED <<scheduled_checks,
                   engineVars, lineVars, classVars, projVars, callVars, apiVars, bgVars, tgVars>>

\* faulty variant: the whole store is emptied
DeleteScheduledChecks_clears_store(user_id) ==
    /\ Len(log) < MaxScheduleRequests
    /\ log' = Append(log, [method |-> "DELETE", user_id |-> user_id])
    /\ IF user_id \in DOMAIN scheduled_checks
       THEN /\ scheduled_checks' = <<>>
            /\ reply' = [status |-> 200,
                         message |-> "Scheduled checks deleted successfully"]
       ELSE /\ reply' = HTTPException(404, "No scheduled checks found for this user")
            /\ UNCHANGED scheduled_checks
    /\ UNCHANGED <<engineVars, lineVars, classVars, projVars, callVars, apiVars, bgVars, tgVars>>

\* delete_scheduled_checks, lines 247-254
DeleteScheduledChecks(user_id) ==
    /\ Len(log) < MaxScheduleRequests
    /\ log' = Append(log, [method |-> "DELETE", user_id |-> user_id])
    /\ IF user_id \in DOMAIN scheduled_checks
       THEN /\ scheduled_checks' =
                  [u \in DOMAIN scheduled_checks \ {user_id} |-> scheduled_checks[u]]
            /\ reply' = [status |-> 200,
                         message |-> "Scheduled checks deleted successfully"]
       ELSE /\ reply' = HTTPException(404, "No scheduled checks found for this user")
            /\ UNCHANGED scheduled_checks
    /\ UNCHANGED <<engineVars, lineVars, classVars, projVars, callVars, apiVars, bgVars, tgVars>>

NextSchedule ==
    \/ \E u \in ScheduleUsers, b \in ScheduleBodies : ScheduleChecks(u, b)
    \/ \E u \in ScheduleUsers : GetScheduledChecks(u)
    \/ \E u \in ScheduleUsers : DeleteScheduledChecks(u)

SpecSchedule == InitSchedule /\ [][NextSchedule]_vars

\* the positions in the request sequence `l` of the POSTs and DELETEs for u
Writes(l, u) ==
    {i \in 1 .. Len(l) : l[i].user_id = u /\ l[i].method \in {"POST", "DELETE"}}

\* the schedule of the most recent POST for u in `l` that no DELETE for u
\* followed, if there is one
Scheduled(l, u) ==
    IF Writes(l, u) = {}
    THEN [found |-> FALSE]
    ELSE LET last == CHOOSE i \in Writes(l, u) : \A j \in Writes(l, u) : j <= i
         IN  IF l[last].method = "DELETE"
             THEN [found |-> FALSE]
             ELSE [found |-> TRUE,
                   schedule |-> stored_schedule(l[last].body, l[last].now)]

\* C29: after any sequence of requests, GET /scheduled_checks/{u} returns the
\* schedule of the most recent POST /schedule_checks/ for u that was not
\* followed by a DELETE for u, and returns 404 otherwise; DELETE for a user
\* without a schedule returns 404 and changes nothing; no request for user u
\* changes the stored schedule of another user (the stored schedule of every
\* user is the one determined by the requests for that user alone).
C29_ScheduleStore ==
    /\ \A u \in ScheduleUsers :
          IF Scheduled(log, u).found
          THEN /\ u \in DOMAIN scheduled_checks
               /\ scheduled_checks[u] = Scheduled(log, u).schedule
          ELSE u \notin DOMAIN scheduled_checks
    /\ log # <<>> =>
          LET e == log[Len(log)]
              before == SubSeq(log, 1, Len(log) - 1)
          IN  /\ e.method = "GET" =>
                    IF Scheduled(before, e.user_id).found
                    THEN /\ reply.status = 200
                         /\ reply.schedule = Scheduled(before, e.user_id).schedule
                    ELSE reply.status = 404
              /\ (e.method = "DELETE" /\ ~Scheduled(before, e.user_id).found) =>
                    reply.status = 404

\* C29 witness: alice posted twice, bob's DELETE found nothing, and alice's
\* GET returned her second schedule.
C29_SecondScheduleReturned ==
    /\ Len(log) = 4
    /\ log[1].method = "POST" /\ log[1].user_id = "alice"
    /\ log[2].method = "POST" /\ log[2].user_id = "alice"
    /\ log[1].body # log[2].body
    /\ log[3].method = "DELETE" /\ log[3].user_id = "bob"
    /\ log[4].method = "GET" /\ log[4].user_id = "alice"
    /\ reply.status = 200
    /\ reply.schedule = stored_schedule(log[2].body, 2)

---------------------------------------------------------------------------
(* SpecBackground: schedule_background_check (app_mobile.py, lines         *)
(* 182-202) on one commute time.  A text is a sequence of characters.  An  *)
(* instant is a number of minutes counted from midnight of the day of the  *)
(* call; the seconds of a clock reading are dropped, which changes no      *)
(* comparison with check_time, whose seconds are zero.  The clock is read  *)
(* twice (lines 189 and 193); the second reading falls in the same minute  *)
(* as the first or in the next one.                                        *)

MinutesPerHour == 60

MinutesPerDay == 24 * MinutesPerHour

Digits == <<"0", "1", "2", "3", "4", "5", "6", "7", "8", "9">>

IsDigit(c) == \E d \in 1 .. 10 : Digits[d] = c

DigitValue(c) == (CHOOSE d \in 1 .. 10 : Digits[d] = c) - 1

\* str.split(':'): the pieces of the text between its colons
RECURSIVE split_colon(_)
split_colon(text) ==
    IF \A i \in 1 .. Len(text) : text[i] # ":"
    THEN <<text>>
    ELSE LET k == CHOOSE i \in 1 .. Len(text) :
                      text[i] = ":" /\ \A j \in 1 .. i - 1 : text[j] # ":"
         IN  <<SubSeq(text, 1, k - 1)>> \o split_colon(SubSeq(text, k + 1, Len(text)))

\* int(text) raises ValueError unless the text is a non-empty run of digits
\* (signs, blanks and underscores do not occur in the texts used here)
IntRaises(text) == text = <<>> \/ \E i \in 1 .. Len(text) : ~IsDigit(text[i])

\* int(text) in base ten
RECURSIVE py_int(_)
py_int(text) ==
    IF text = <<>> THEN 0
    ELSE 10 * py_int(SubSeq(text, 1, Len(text) - 1)) + DigitValue(text[Len(text)])

\* line 186 raises unless split gives two integers; line 189 raises unless
\* datetime.replace accepts them as hour and minute
ParseRaises(commute_time) ==
    LET parts == split_colon(commute_time)
    IN  IF Len(parts) # 2 THEN TRUE
        ELSE IF IntRaises(parts[1]) \/ IntRaises(parts[2]) THEN TRUE
        ELSE py_int(parts[1]) > 23 \/ py_int(parts[2]) > 59

\* lines 189-190: today's date with the commute hour and minute, seconds
\* zero, less 30 minutes
check_time_today(commute_time) ==
    LET parts == split_colon(commute_time)
        hour == py_int(parts[1])
        minute == py_int(parts[2])
    IN  hour * MinutesPerHour + minute - 30

\* lines 189-194
check_time_of(commute_time, now) ==
    LET check_time == check_time_today(commute_time)
    IN  IF check_time <= now THEN check_time + MinutesPerDay ELSE check_time

\* the text HH:MM of an hour and a minute
HHMM(h, m) ==
    <<Digits[(h \div 10) + 1], Digits[(h % 10) + 1], ":",
      Digits[(m \div 10) + 1], Digits[(m % 10) + 1]>>

\* valid commute times around midnight, the half hour and the day
ValidCommuteTimes ==
    {HHMM(h, m) : h \in {0, 1, 8, 12, 23}, m \in {0, 10, 29, 30, 31, 59}}

\* texts that are not a time of day
InvalidCommuteTimes == {HHMM(24, 0), HHMM(8, 60), <<"0", "8", "0", "0">>, <<"8", ":">>}

InitBackground ==
    /\ EngineIdle
    /\ LineIdle
    /\ ClassIdle
    /\ ProjIdle
    /\ CallIdle
    /\ ApiIdle
    /\ SchedIdle
    /\ TgIdle
    /\ bg \in {[commute_time |-> t, now |-> n, now_at_test |-> n + d] :
                  t \in ValidCommuteTimes \cup InvalidCommuteTimes,
                  n \in 0 .. MinutesPerDay - 1,
                  d \in {0, 1}}
    /\ bpc = "call"

\* schedule_background_check, lines 184-196
ScheduleBackgroundCheck ==
    /\ bpc = "call"
    /\ ~ParseRaises(bg.commute_time)
    /\ bg' = [commute_time |-> bg.commute_time, now |-> bg.now,
              now_at_test |-> bg.now_at_test,
              check_time |-> check_time_of(bg.commute_time, bg.now_at_test)]
    /\ bpc' = "scheduled"
    /\ UNCHANGED <<engineVars, lineVars, classVars, projVars, callVars, apiVars, schedVars, tgVars>>

\* lines 186-189 raising and the except branch, lines 201-202
ScheduleBackgroundCheckRaises ==
    /\ bpc = "call"
    /\ ParseRaises(bg.commute_time)
    /\ bpc' = "raised"
    /\ UNCHANGED <<bg, engineVars, lineVars, classVars, projVars, callVars, apiVars,
                   schedVars, tgVars>>

NextBackground == ScheduleBackgroundCheck \/ ScheduleBackgroundCheckRaises

SpecBackground == InitBackground /\ [][NextBackground]_vars

\* C30: schedule_background_check computes a check time 30 minutes before
\* the commute time that is strictly later than the current time, for every
\* valid HH:MM commute time and every current time of day (today's occurrence
\* if it has not passed, otherwise tomorrow's).
C30_CheckTimeAfterNow ==
    bpc = "scheduled" =>
        LET today == check_time_today(bg.commute_time)
        IN  /\ bg.check_time > bg.now_at_test
            /\ bg.check_time \in {today, today + MinutesPerDay}
            /\ today > bg.now_at_test => bg.check_time = today

\* What the code keeps of C30: the check time is today's if that is later
\* than the clock reading and tomorrow's otherwise, and it is later than the
\* clock reading for a commute time from 00:30 on when no midnight falls
\* between the two readings.
C30_TodayOrTomorrow ==
    bpc = "scheduled" =>
        LET today == check_time_today(bg.commute_time)
        IN  /\ bg.check_time = IF today > bg.now_at_test THEN today
                                                         ELSE today + MinutesPerDay
            /\ (today >= 0 /\ bg.now_at_test < MinutesPerDay) =>
                  bg.check_time > bg.now_at_test

---------------------------------------------------------------------------
(* SpecTrigger: the cron trigger that _schedule_commute_checks (bot.py,    *)
(* lines 857-936) builds for one entered commute time.  Times of day are   *)
(* minutes from midnight, instants of the week minutes from Monday 00:00.  *)
(* Europe/Madrid is 60 minutes ahead of UTC in winter and 120 in summer;   *)
(* the offset of the day the schedule is confirmed and the offset of the   *)
(* day the job fires are inputs.  On the day of a clock change the local   *)
(* times from 02:00 to 02:59 do not exist or exist twice, and localize     *)
(* with is_dst=None raises for them.                                       *)

MinutesPerWeek == 7 * MinutesPerDay

UtcOffsets == {60, 120}

\* str(n) of a non-negative integer: its decimal digits
RECURSIVE str(_)
str(n) == IF n < 10 THEN <<Digits[n + 1]>>
          ELSE str(n \div 10) \o <<Digits[(n % 10) + 1]>>

\* datetime.strptime(time_str, "%H:%M"), lines 848-855: one or two digits
\* for the hour, a colon, one or two digits for the minute; None otherwise
_parse_time(time_str) ==
    LET parts == split_colon(time_str)
    IN  IF Len(parts) # 2 THEN [ok |-> FALSE]
        ELSE IF IntRaises(parts[1]) \/ IntRaises(parts[2]) THEN [ok |-> FALSE]
        ELSE IF Len(parts[1]) > 2 \/ Len(parts[2]) > 2 THEN [ok |-> FALSE]
        ELSE IF py_int(parts[1]) > 23 \/ py_int(parts[2]) > 59 THEN [ok |-> FALSE]
        ELSE [ok |-> TRUE, hour |-> py_int(parts[1]), minute |-> py_int(parts[2])]

\* local_tz.localize(naive, is_dst=None), lines 880 and 886, raising
LocalizeRaises(time_obj, clock_change) == clock_change /\ time_obj.hour = 2

\* lines 879-882 / 885-888: today's date with the commute hour and minute,
\* localized, less 30 minutes, converted to UTC; its hour and minute
utc_check_time(time_obj, utc_offset) ==
    LET utc == (time_obj.hour * MinutesPerHour + time_obj.minute - 30 - utc_offset)
                   % MinutesPerDay
    IN  [hour |-> utc \div MinutesPerHour, minute |-> utc % MinutesPerHour]

\* lines 872-873 and 902-907: CronTrigger(day_of_week=days_str, hour, minute,
\* timezone='UTC'), days_str being str(day) of the days joined by commas,
\* kept as the list of its items; day 0 is Monday for the buttons and for
\* the trigger
CronTrigger(days, utc_check) ==
    [day_of_week |-> [i \in 1 .. Len(days) |-> str(days[i])], hour |-> utc_check.hour, minute |-> utc_check.minute,
     timezone |-> "UTC"]

\* the instants of the week, UTC, at which the trigger fires
FireInstants(trigger) ==
    {(py_int(trigger.day_of_week[i]) * MinutesPerDay + trigger.hour * MinutesPerHour
         + trigger.minute) % MinutesPerWeek : i \in 1 .. Len(trigger.day_of_week)}

\* entered texts: every hour with some minutes, in both spellings of a
\* one-digit hour, and texts that are no time
TriggerTexts ==
    {HHMM(h, m) : h \in 0 .. 23, m \in {0, 15, 29, 30, 31, 59}}
        \cup {<<Digits[h + 1], ":", "3", "0">> : h \in 0 .. 9}
        \cup {<<"s", "o", "o", "n">>, HHMM(24, 0), <<"8", ".", "3", "0">>}

\* selections of the day buttons, in the order pressed
TriggerDays == {<<0>>, <<4>>, <<0, 4>>, <<2, 1>>}

InitTrigger ==
    /\ EngineIdle
    /\ LineIdle
    /\ ClassIdle
    /\ ProjIdle
    /\ CallIdle
    /\ ApiIdle
    /\ SchedIdle
    /\ BgIdle
    /\ BotIdle
    /\ tr \in {[time_str |-> t, days |-> d, utc_offset |-> o, fire_offset |-> f,
                clock_change |-> c] :
                  t \in TriggerTexts, d \in TriggerDays, o \in UtcOffsets,
                  f \in UtcOffsets, c \in BOOLEAN}
    /\ tpc = "call"

\* lines 865-870: the entered text is no time
TriggerInvalidTime ==
    /\ tpc = "call"
    /\ ~_parse_time(tr.time_str).ok
    /\ tpc' = "invalid"
    /\ UNCHANGED <<tr, engineVars, lineVars, classVars, projVars, callVars, apiVars,
                   schedVars, bgVars, botVars>>

\* line 880 / 886 raising
TriggerLocalizeRaises ==
    /\ tpc = "call"
    /\ _parse_time(tr.time_str).ok
    /\ LocalizeRaises(_parse_time(tr.time_str), tr.clock_change)
    /\ tpc' = "raised"
    /\ UNCHANGED <<tr, engineVars, lineVars, classVars, projVars, callVars, apiVars,
                   schedVars, bgVars, botVars>>

\* lines 872-907: the trigger of the job
TriggerBuilt ==
    /\ tpc = "call"
    /\ _parse_time(tr.time_str).ok
    /\ ~LocalizeRaises(_parse_time(tr.time_str), tr.clock_change)
    /\ tr' = [time_str |-> tr.time_str, days |-> tr.days,
              utc_offset |-> tr.utc_offset, fire_offset |-> tr.fire_offset,
              clock_change |-> tr.clock_change,
              time_obj |-> _parse_time(tr.time_str),
              trigger |-> CronTrigger(tr.days,
                              utc_check_time(_parse_time(tr.time_str), tr.utc_offset))]
    /\ tpc' = "built"
    /\ UNCHANGED <<engineVars, lineVars, classVars, projVars, callVars, apiVars,
                   schedVars, bgVars, botVars>>

NextTrigger == TriggerInvalidTime \/ TriggerLocalizeRaises \/ TriggerBuilt

SpecTrigger == InitTrigger /\ [][NextTrigger]_vars

\* the instants of the week, local time, 30 minutes before the commute time
\* on the selected weekdays
CommuteChecks ==
    {(tr.days[i] * MinutesPerDay + tr.time_obj.hour * MinutesPerHour
         + tr.time_obj.minute - 30) % MinutesPerWeek : i \in 1 .. Len(tr.days)}

\* the local instants of the week at which the job fires
LocalFireInstants ==
    {(t + tr.fire_offset) % MinutesPerWeek : t \in FireInstants(tr.trigger)}

\* C34: a scheduled commute job fires 30 minutes before the entered commute
\* time, local time, on each selected weekday: the (weekday, UTC hour, UTC
\* minute) of the trigger denotes the instant 30 minutes before HH:MM local
\* time on that selected weekday, also when subtracting 30 minutes or
\* converting to UTC crosses midnight.
C34_TriggerIsHalfHourBeforeCommute ==
    tpc = "built" => LocalFireInstants = CommuteChecks

\* C34 without a change of the clock between confirmation and firing: the
\* code does not keep it either.
C34_TriggerRightWhileOffsetStays ==
    (tpc = "built" /\ tr.fire_offset = tr.utc_offset) =>
        LocalFireInstants = CommuteChecks

\* What the code keeps of C34: the trigger is right when the UTC offset of
\* the firing day is the one of the day of confirmation and the check time,
\* 30 minutes before the commute, is not before midnight UTC of the commute
\* day.
C34_TriggerRightAwayFromMidnight ==
    (/\ tpc = "built"
     /\ tr.fire_offset = tr.utc_offset
     /\ tr.time_obj.hour * MinutesPerHour + tr.time_obj.minute >= 30 + tr.utc_offset) =>
        LocalFireInstants = CommuteChecks

---------------------------------------------------------------------------
(* The Telegram bot (telegram_bot/bot.py).  The Application is built with  *)
(* its defaults (lines 1220-1226), so updates are handled one at a time    *)
(* and a handler runs to its end, or to initial_scrape_done.wait(), before *)
(* the next update is taken: a handler is one action.  The task of         *)
(* post_init (scrape_and_set_event) runs beside the handlers.              *)
(*                                                                         *)
(* A dict is a function on the set of its keys.  Texts that the code       *)
(* parses or compares by prefix (commute times, job names) are sequences   *)
(* of characters; names and addresses, which it only stores, are strings.  *)
(* The replies of the backend (geocoding, rain check) are inputs of the    *)
(* handlers.                                                               *)

\* constants.py, lines 8-19: the conversation states
USER_NAME == 0
HOME_ADDRESS == 1
WORK_ADDRESS == 2
SELECTING_ROUTE == 3
SETTING_TIMES == 4
SETTING_DAYS == 5
CONFIRMING_SCHEDULE == 6

\* ConversationHandler.END: the user is not in the conversation
END == -1

\* the schedules a user confirms in a run
MaxSchedules == 2

\* d with key k removed (del d[k]) and d with d[k] = v
dict_del(d, k) == [x \in DOMAIN d \ {k} |-> d[x]]

dict_set(d, k, v) == (k :> v) @@ d

\* f"commute_{user_id}", lines 140, 504, 667 and 860
user_job_prefix(user_id) == <<"c", "o", "m", "m", "u", "t", "e", "_">> \o str(user_id)

\* f"commute_{user_id}_morning" and f"commute_{user_id}_evening", lines 893, 914
job_name(user_id, type) ==
    user_job_prefix(user_id) \o
        (IF type = "morning" THEN <<"_", "m", "o", "r", "n", "i", "n", "g">>
                             ELSE <<"_", "e", "v", "e", "n", "i", "n", "g">>)

\* str.startswith
startswith(text, prefix) ==
    Len(prefix) <= Len(text) /\ SubSeq(text, 1, Len(prefix)) = prefix

\* lines 139-145, 503-509, 666-672 and 859-863: every job whose name starts
\* with the prefix of the user is removed from the queue
remove_user_jobs(jobs, user_id) ==
    LET Stays(job) == ~startswith(job.name, user_job_prefix(user_id))
    IN  SelectSeq(jobs, Stays)

\* the inline keyboards of the bot's messages and the callback data on them
Keyboards ==
    [main |-> {"check_again", "save_route", "schedule", "my_routes",
               "add_new_route", "reset"},               \* lines 1176-1192
     select_route |-> {"select_route_0"},                \* lines 291-295
     days |-> {"day_0", "day_1", "day_2", "day_3", "day_4", "day_done"},
                                                         \* lines 339-349, 389-399
     yes_no |-> {"schedule_confirm_yes", "schedule_confirm_no"},  \* lines 423-429
     reset |-> {"confirm_reset", "cancel_reset"},        \* lines 534-540
     start_new |-> {"add_new_route"}]                    \* line 682

KeyboardKinds == DOMAIN Keyboards

\* the user can press a button of a keyboard of kind k: one of the messages
\* of the chat carries it.  A chat with history holds messages of every kind
\* from earlier runs of the bot, whose stores are in memory only (lines
\* 92-96) while the messages stay in the chat.
OnScreen(u, k) == keyboards[u].history \/ k \in keyboards[u].shown

\* the keyboards of the chat of u after the handler removed (edited or
\* deleted) the pressed message of kind gone and sent the kinds sent
keyboards_after(u, gone, sent) ==
    IF keyboards[u].history THEN keyboards
    ELSE [keyboards EXCEPT ![u].shown = (@ \ gone) \cup sent]

\* what no handler of the bot touches
notBotVars == <<engineVars, lineVars, classVars, projVars, callVars, apiVars,
                schedVars, bgVars, trigVars>>


\* no handler is suspended: the Application takes the next update
NextUpdate == waiting = <<>>

\* lines 139-155 of start: the jobs of the user are stopped, the welcome
\* message asks for the name
StartProceeds(u) ==
    /\ job_queue' = remove_user_jobs(job_queue, u)
    /\ conv' = [conv EXCEPT ![u] = USER_NAME]

\* start, lines 115-155, entry point of the first conversation, with the
\* initial scrape finished
Start(u) ==
    /\ NextUpdate
    /\ conv[u] = END
    /\ initial_scrape_done
    /\ user_data' = dict_set(user_data, u, <<>>)
    /\ StartProceeds(u)
    /\ UNCHANGED <<saved_routes, scheduled_commutes, initial_scrape_done, sched_conv,
                   context_user_data, keyboards, scrape_task, waiting, notBotVars>>

\* start, lines 115-129: the initial scrape is not finished, the handler
\* waits for the event
StartWaits(u) ==
    /\ NextUpdate
    /\ conv[u] = END
    /\ ~initial_scrape_done
    /\ user_data' = dict_set(user_data, u, <<>>)
    /\ waiting' = [user |-> u, handler |-> "start"]
    /\ UNCHANGED <<saved_routes, scheduled_commutes, job_queue, initial_scrape_done,
                   conv, sched_conv, context_user_data, keyboards, scrape_task,
                   notBotVars>>

\* start, lines 130-155: the event is set, the handler goes on
StartResumes ==
    /\ waiting # <<>>
    /\ waiting.handler = "start"
    /\ initial_scrape_done
    /\ StartProceeds(waiting.user)
    /\ waiting' = <<>>
    /\ UNCHANGED <<user_data, saved_routes, scheduled_commutes, initial_scrape_done,
                   sched_conv, context_user_data, keyboards, scrape_task, notBotVars>>

\* get_user_name, lines 158-170; line 162 raises KeyError when the user has
\* no entry in user_data, and the conversation keeps its state
GetUserName(u, text) ==
    /\ NextUpdate
    /\ conv[u] = USER_NAME
    /\ IF u \in DOMAIN user_data
       THEN /\ user_data' = [user_data EXCEPT ![u] = dict_set(@, "user", text)]
            /\ conv' = [conv EXCEPT ![u] = HOME_ADDRESS]
       ELSE UNCHANGED <<user_data, conv>>
    /\ UNCHANGED <<saved_routes, scheduled_commutes, job_queue, initial_scrape_done,
                   sched_conv, context_user_data, keyboards, scrape_task, waiting,
                   notBotVars>>

\* get_home_address, lines 173-197; geocode is the status of the reply of
\* geocode_address_api
GetHomeAddress(u, text, geocode) ==
    /\ NextUpdate
    /\ conv[u] = HOME_ADDRESS
    /\ IF geocode # "ok"
       THEN UNCHANGED <<user_data, conv>>
       ELSE IF u \in DOMAIN user_data
       THEN /\ user_data' = [user_data EXCEPT ![u] = dict_set(@, "home", text)]
            /\ conv' = [conv EXCEPT ![u] = WORK_ADDRESS]
       ELSE UNCHANGED <<user_data, conv>>
    /\ UNCHANGED <<saved_routes, scheduled_commutes, job_queue, initial_scrape_done,
                   sched_conv, context_user_data, keyboards, scrape_task, waiting,
                   notBotVars>>

\* get_work_address from line 231: the rain check of the route in user_data;
\* rain is the outcome of check_rain_api and of sending its result: "ok",
\* an error reply, or an exception.  A key missing in the dict is an
\* exception of lines 233-235, caught at line 254.
RainCheck(u, dicts, rain) ==
    /\ IF rain = "ok" /\ {"user", "home", "work"} \subseteq DOMAIN dicts[u]
       THEN /\ user_data' = dicts
            /\ keyboards' = keyboards_after(u, {}, {"main"})
       ELSE /\ user_data' = dict_del(dicts, u)
            /\ UNCHANGED keyboards
    /\ conv' = [conv EXCEPT ![u] = END]

\* get_work_address, lines 200-268, not waiting for the initial scrape
GetWorkAddress(u, text, geocode, rain) ==
    /\ NextUpdate
    /\ conv[u] = WORK_ADDRESS
    /\ initial_scrape_done \/ geocode # "ok" \/ u \notin DOMAIN user_data
    /\ IF geocode # "ok"
       THEN UNCHANGED <<user_data, conv, keyboards>>
       ELSE IF u \notin DOMAIN user_data
       THEN UNCHANGED <<user_data, conv, keyboards>>
       ELSE RainCheck(u, [user_data EXCEPT ![u] = dict_set(@, "work", text)], rain)
    /\ UNCHANGED <<saved_routes, scheduled_commutes, job_queue, initial_scrape_done,
                   sched_conv, context_user_data, scrape_task, waiting, notBotVars>>

\* get_work_address, lines 200-228: the address is stored and the handler
\* waits for the initial scrape
GetWorkAddressWaits(u, text) ==
    /\ NextUpdate
    /\ conv[u] = WORK_ADDRESS
    /\ ~initial_scrape_done
    /\ u \in DOMAIN user_data
    /\ user_data' = [user_data EXCEPT ![u] = dict_set(@, "work", text)]
    /\ waiting' = [user |-> u, handler |-> "get_work_address"]
    /\ UNCHANGED <<saved_routes, scheduled_commutes, job_queue, initial_scrape_done,
                   conv, sched_conv, context_user_data, keyboards, scrape_task,
                   notBotVars>>

\* get_work_address, lines 229-268: the event is set, the rain check runs
GetWorkAddressResumes(rain) ==
    /\ waiting # <<>>
    /\ waiting.handler = "get_work_address"
    /\ initial_scrape_done
    /\ RainCheck(waiting.user, user_data, rain)
    /\ waiting' = <<>>
    /\ UNCHANGED <<saved_routes, scheduled_commutes, job_queue, initial_scrape_done,
                   sched_conv, context_user_data, scrape_task, notBotVars>>

\* cancel, lines 476-486: fallback of the first conversation and, for a user
\* who is not in it, of the schedule conversation (lines 1239, 1265)
Cancel(u) ==
    /\ NextUpdate
    /\ conv[u] # END \/ sched_conv[u] # END
    /\ user_data' = dict_del(user_data, u)
    /\ IF conv[u] # END
       THEN conv' = [conv EXCEPT ![u] = END] /\ UNCHANGED sched_conv
       ELSE sched_conv' = [sched_conv EXCEPT ![u] = END] /\ UNCHANGED conv
    /\ UNCHANGED <<saved_routes, scheduled_commutes, job_queue, initial_scrape_done,
                   context_user_data, keyboards, scrape_task, waiting, notBotVars>>

\* start_new_route_from_button, lines 489-526, entry point of the first
\* conversation; kind is the keyboard of the pressed message
StartNewRouteFromButton(u, kind) ==
    /\ NextUpdate
    /\ conv[u] = END
    /\ "add_new_route" \in Keyboards[kind]
    /\ OnScreen(u, kind)
    /\ LET known == u \in DOMAIN user_data /\ "user" \in DOMAIN user_data[u]
       IN  /\ user_data' = dict_set(user_data, u,
                               IF known THEN "user" :> user_data[u]["user"] ELSE <<>>)
           /\ conv' = [conv EXCEPT ![u] = IF known THEN HOME_ADDRESS ELSE USER_NAME]
    /\ job_queue' = remove_user_jobs(job_queue, u)
    /\ keyboards' = keyboards_after(u, {kind}, {})
    /\ UNCHANGED <<saved_routes, scheduled_commutes, initial_scrape_done, sched_conv,
                   context_user_data, scrape_task, waiting, notBotVars>>

\* dict.get(key) being truthy: the key is there and its value is not empty
truthy_get(d, k) == k \in DOMAIN d /\ d[k] # <<>>

\* schedule_start, lines 271-307, entry point of the schedule conversation,
\* by the command /schedule or by the button of the main keyboard
ScheduleStart(u, via) ==
    /\ NextUpdate
    /\ sched_conv[u] = END
    /\ via = "button" => OnScreen(u, "main")
    /\ IF ~truthy_get(saved_routes, u)
       THEN UNCHANGED <<sched_conv, keyboards>>
       ELSE /\ sched_conv' = [sched_conv EXCEPT ![u] = SELECTING_ROUTE]
            /\ keyboards' = keyboards_after(u, IF via = "button" THEN {"main"} ELSE {},
                                            {"select_route"})
    /\ UNCHANGED <<user_data, saved_routes, scheduled_commutes, job_queue,
                   initial_scrape_done, conv, context_user_data, scrape_task, waiting,
                   notBotVars>>

\* select_route_for_schedule, lines 310-321: state handler of
\* SELECTING_ROUTE (line 1256) and, in any other state, called by
\* handle_callback (lines 603-604), which ignores the state it returns
SelectRouteForSchedule(u, route_idx) ==
    /\ NextUpdate
    /\ OnScreen(u, "select_route")
    /\ context_user_data' =
           [context_user_data EXCEPT ![u] = dict_set(@, "route_idx", route_idx)]
    /\ sched_conv' = [sched_conv EXCEPT
                         ![u] = IF @ = SELECTING_ROUTE THEN SETTING_TIMES ELSE @]
    /\ UNCHANGED <<user_data, saved_routes, scheduled_commutes, job_queue,
                   initial_scrape_done, conv, keyboards, scrape_task, waiting,
                   notBotVars>>

\* a text message reaches the schedule conversation when the first
\* conversation, added before it (lines 1245, 1269), has no handler for it
TextToSchedule(u) == conv[u] = END

\* get_commute_times, lines 324-331: any text is stored
GetCommuteTimes(u, text) ==
    /\ NextUpdate
    /\ TextToSchedule(u)
    /\ sched_conv[u] = SETTING_TIMES
    /\ context_user_data' =
           [context_user_data EXCEPT ![u] = dict_set(@, "morning_time", text)]
    /\ sched_conv' = [sched_conv EXCEPT ![u] = SETTING_DAYS]
    /\ UNCHANGED <<user_data, saved_routes, scheduled_commutes, job_queue,
                   initial_scrape_done, conv, keyboards, scrape_task, waiting,
                   notBotVars>>

\* the stored schedules of u after context.user_data['days'] became another
\* list object: the schedules that held the old list keep it, apart
unshare_days(schedules) ==
    [i \in 1 .. Len(schedules) |-> [schedules[i] EXCEPT !.days_is_context_list = FALSE]]

\* the stored schedules of u after the list context.user_data['days'] was
\* changed in place: line 454 stored the list itself, not a copy
shared_days(schedules, days) ==
    [i \in 1 .. Len(schedules) |->
        IF schedules[i].days_is_context_list
        THEN [schedules[i] EXCEPT !.days = days] ELSE schedules[i]]

\* get_commute_days, lines 334-354: any text is stored, the day keyboard is
\* sent, the selection starts as a new empty list
GetCommuteDays(u, text) ==
    /\ NextUpdate
    /\ TextToSchedule(u)
    /\ sched_conv[u] = SETTING_DAYS
    /\ context_user_data' =
           [context_user_data EXCEPT
               ![u] = dict_set(dict_set(@, "evening_time", text), "days", <<>>)]
    /\ scheduled_commutes' =
           IF u \in DOMAIN scheduled_commutes
           THEN [scheduled_commutes EXCEPT ![u] = unshare_days(@)]
           ELSE scheduled_commutes
    /\ sched_conv' = [sched_conv EXCEPT ![u] = CONFIRMING_SCHEDULE]
    /\ keyboards' = keyboards_after(u, {}, {"days"})
    /\ UNCHANGED <<user_data, saved_routes, job_queue, initial_scrape_done, conv,
                   scrape_task, waiting, notBotVars>>

\* lines 371-374: list.append of a day that is not in the list, list.remove
\* (of the first occurrence) of a day that is
toggle(days, day) ==
    IF \A i \in 1 .. Len(days) : days[i] # day
    THEN Append(days, day)
    ELSE LET k == CHOOSE i \in 1 .. Len(days) :
                      days[i] = day /\ \A j \in 1 .. i - 1 : days[j] # day
         IN  SubSeq(days, 1, k - 1) \o SubSeq(days, k + 1, Len(days))

\* lines 380-383, 413-416 and 447-454: reading the route and both times
\* raises KeyError or IndexError
RouteOrTimesMissing(u) ==
    IF ~({"route_idx", "morning_time", "evening_time"} \subseteq DOMAIN context_user_data[u])
    THEN TRUE
    ELSE IF u \notin DOMAIN saved_routes THEN TRUE
    ELSE context_user_data[u]["route_idx"] >= Len(saved_routes[u])

\* confirm_schedule, lines 357-403, and schedule_summary_and_confirm, lines
\* 406-433: state handler of CONFIRMING_SCHEDULE (line 1260) and, in any
\* other state, called by handle_callback (lines 605-606).  It returns
\* CONFIRMING_SCHEDULE, so the state of the conversation never changes.
\* day_action is the end of the callback data: "done" or the digit of a day.
ConfirmSchedule(u, day_action) ==
    /\ NextUpdate
    /\ OnScreen(u, "days")
    /\ IF day_action = <<"d", "o", "n", "e">>
       THEN IF ~truthy_get(context_user_data[u], "days")
            THEN UNCHANGED <<context_user_data, scheduled_commutes, keyboards>>
            ELSE IF RouteOrTimesMissing(u)
            THEN UNCHANGED <<context_user_data, scheduled_commutes, keyboards>>
            ELSE /\ keyboards' = keyboards_after(u, {"days"}, {"yes_no"})
                 /\ UNCHANGED <<context_user_data, scheduled_commutes>>
       ELSE IF "days" \notin DOMAIN context_user_data[u]
            THEN UNCHANGED <<context_user_data, scheduled_commutes, keyboards>>
            ELSE LET days == toggle(context_user_data[u]["days"], py_int(day_action))
                 IN  /\ context_user_data' =
                            [context_user_data EXCEPT ![u] = dict_set(@, "days", days)]
                     /\ scheduled_commutes' =
                            IF u \in DOMAIN scheduled_commutes
                            THEN [scheduled_commutes EXCEPT ![u] = shared_days(@, days)]
                            ELSE scheduled_commutes
                     /\ UNCHANGED keyboards
    /\ UNCHANGED <<user_data, saved_routes, job_queue, initial_scrape_done, conv,
                   sched_conv, scrape_task, waiting, notBotVars>>

\* lines 450-456: the schedule that is stored.  days is the list object of
\* context.user_data, which the model marks.
schedule_info(u) ==
    [route |-> saved_routes[u][context_user_data[u]["route_idx"] + 1],
     morning_time |-> context_user_data[u]["morning_time"],
     evening_time |-> context_user_data[u]["evening_time"],
     days |-> context_user_data[u]["days"],
     days_is_context_list |-> TRUE,
     active |-> TRUE]

\* lines 891-909 and 912-930: the job of one commute
commute_job(u, info, type, utc_offset) ==
    LET commute_time == IF type = "morning" THEN info.morning_time
                                            ELSE info.evening_time
    IN  [name |-> job_name(u, type),
         data |-> [user_id |-> u, commute_time |-> commute_time,
                   route |-> info.route.name, type |-> type],
         trigger |-> CronTrigger(info.days,
                         utc_check_time(_parse_time(commute_time), utc_offset))]

\* how _schedule_commute_checks ends, lines 857-936: "invalid time" at line
\* 870, KeyError at line 899 for a user without entry in user_data,
\* ValueError of CronTrigger at line 902 for an empty day_of_week
schedule_outcome(u, info) ==
    IF ~_parse_time(info.morning_time).ok \/ ~_parse_time(info.evening_time).ok
    THEN "invalid time"
    ELSE IF u \notin DOMAIN user_data THEN "KeyError"
    ELSE IF info.days = <<>> THEN "ValueError"
    ELSE "scheduled"

\* faulty variant: the jobs of an earlier schedule stay in the queue
_schedule_commute_checks_keeps_jobs(jobs, u, info, utc_offset) ==
    IF schedule_outcome(u, info) # "scheduled" THEN jobs
    ELSE jobs \o <<commute_job(u, info, "morning", utc_offset),
                   commute_job(u, info, "evening", utc_offset)>>

\* _schedule_commute_checks, lines 857-936: the job queue it leaves
_schedule_commute_checks(jobs, u, info, utc_offset) ==
    LET removed == remove_user_jobs(jobs, u)
    IN  IF schedule_outcome(u, info) # "scheduled" THEN removed
        ELSE removed \o <<commute_job(u, info, "morning", utc_offset),
                          commute_job(u, info, "evening", utc_offset)>>

\* schedule_confirmed, lines 435-465: state handler of CONFIRMING_SCHEDULE
\* (line 1261) and, in any other state, called by handle_callback (lines
\* 607-608).  The message is edited first (line 441); an exception later
\* leaves the conversation in its state.
ScheduleConfirmed(u, utc_offset, max_schedules) ==
    /\ NextUpdate
    /\ OnScreen(u, "yes_no")
    /\ u \in DOMAIN scheduled_commutes => Len(scheduled_commutes[u]) < max_schedules
    /\ keyboards' = keyboards_after(u, {"yes_no"}, {"main"})
    /\ IF RouteOrTimesMissing(u) \/ "days" \notin DOMAIN context_user_data[u]
       THEN UNCHANGED <<scheduled_commutes, job_queue, sched_conv>>
       ELSE LET info == schedule_info(u)
                outcome == schedule_outcome(u, info)
            IN  /\ scheduled_commutes' =
                       IF u \in DOMAIN scheduled_commutes
                       THEN [scheduled_commutes EXCEPT ![u] = Append(@, info)]
                       ELSE dict_set(scheduled_commutes, u, <<info>>)
                /\ job_queue' = _schedule_commute_checks(job_queue, u, info, utc_offset)
                /\ sched_conv' =
                       [sched_conv EXCEPT
                           ![u] = IF @ = CONFIRMING_SCHEDULE
                                     /\ outcome \in {"scheduled", "invalid time"}
                                  THEN END ELSE @]
    /\ UNCHANGED <<user_data, saved_routes, initial_scrape_done, conv,
                   context_user_data, scrape_task, waiting, notBotVars>>

\* schedule_cancelled, lines 468-473
ScheduleCancelled(u) ==
    /\ NextUpdate
    /\ OnScreen(u, "yes_no")
    /\ keyboards' = keyboards_after(u, {"yes_no"}, {})
    /\ sched_conv' = [sched_conv EXCEPT ![u] = IF @ = CONFIRMING_SCHEDULE THEN END ELSE @]
    /\ UNCHANGED <<user_data, saved_routes, scheduled_commutes, job_queue,
                   initial_scrape_done, conv, context_user_data, scrape_task, waiting,
                   notBotVars>>

\* lines 709-721: the route that is saved (without its saved_at time stamp)
route_of(d) == [name |-> <<d["home"], d["work"]>>, home |-> d["home"], work |-> d["work"]]

\* _handle_save_route, lines 697-733, called by handle_callback
SaveRoute(u) ==
    /\ NextUpdate
    /\ OnScreen(u, "main")
    /\ IF ~truthy_get(user_data, u)
       THEN UNCHANGED saved_routes
       ELSE LET routes_u == IF u \in DOMAIN saved_routes THEN saved_routes[u] ELSE <<>>
            IN  IF ~({"home", "work"} \subseteq DOMAIN user_data[u])
                THEN /\ saved_routes' = dict_set(saved_routes, u, routes_u)
                ELSE IF \E i \in 1 .. Len(routes_u) :
                            /\ routes_u[i].home = user_data[u]["home"]
                            /\ routes_u[i].work = user_data[u]["work"]
                THEN /\ saved_routes' = dict_set(saved_routes, u, routes_u)
                ELSE /\ saved_routes' =
                            dict_set(saved_routes, u, Append(routes_u, route_of(user_data[u])))
    /\ UNCHANGED <<user_data, scheduled_commutes, job_queue, initial_scrape_done, conv,
                   sched_conv, context_user_data, keyboards, scrape_task, waiting,
                   notBotVars>>

\* reset_confirmation, lines 529-548, called by handle_callback
ResetConfirmation(u) ==
    /\ NextUpdate
    /\ OnScreen(u, "main")
    /\ keyboards' = keyboards_after(u, {"main"}, {"reset"})
    /\ UNCHANGED <<user_data, saved_routes, scheduled_commutes, job_queue,
                   initial_scrape_done, conv, sched_conv, context_user_data,
                   scrape_task, waiting, notBotVars>>

\* _handle_confirm_reset, lines 661-688, called by handle_callback
ConfirmReset(u) ==
    /\ NextUpdate
    /\ OnScreen(u, "reset")
    /\ job_queue' = remove_user_jobs(job_queue, u)
    /\ user_data' = dict_del(user_data, u)
    /\ saved_routes' = dict_del(saved_routes, u)
    /\ scheduled_commutes' = dict_del(scheduled_commutes, u)
    /\ keyboards' = keyboards_after(u, {"reset"}, {"start_new"})
    /\ UNCHANGED <<initial_scrape_done, conv, sched_conv, context_user_data,
                   scrape_task, waiting, notBotVars>>

\* _handle_cancel_reset, lines 691-694, called by handle_callback
CancelReset(u) ==
    /\ NextUpdate
    /\ OnScreen(u, "reset")
    /\ keyboards' = keyboards_after(u, {"reset"}, {})
    /\ UNCHANGED <<user_data, saved_routes, scheduled_commutes, job_queue,
                   initial_scrape_done, conv, sched_conv, context_user_data,
                   scrape_task, waiting, notBotVars>>

---------------------------------------------------------------------------
(* SpecBot: the handlers for two users whose ids are 1 and 12, in chats    *)
(* with history, after the initial scrape.  SpecChat: one user in a new    *)
(* chat, where a button can be pressed only while a message of this run    *)
(* carries it (a keyboard sent twice counts once, as if the user had       *)
(* deleted the older message).  The handlers that leave user_data of other *)
(* users, saved_routes, scheduled_commutes and the job queue alone are not *)
(* part of the model: help, test, routes, check_again, my_routes,          *)
(* back_to_main, use_route, and the scheduled check itself.                *)

BotUsers == {1, 12}

ChatUsers == {1}

Names == {"Ana"}

HomeAddresses == {"Carrer de Balmes, Barcelona"}

WorkAddresses == {"Avinguda Diagonal, Barcelona"}

\* replies of the backend to a handler
ApiReplies == {"ok", "error"}

\* the texts sent as the morning commute time and as the evening commute
\* time: times of day and a text that is none
MorningTimes == {HHMM(8, 30)}

EveningTimes == {HHMM(17, 30), <<"s", "o", "o", "n">>}

ChatEveningTimes == {HHMM(17, 30), HHMM(18, 0), <<"s", "o", "o", "n">>}

\* the day buttons pressed in SpecBot and SpecChat, Mon, and in SpecFresh,
\* Mon or Fri
DayButtons == {0}

FreshDayButtons == {0, 4}

\* the schedules a user of SpecBot confirms
BotMaxSchedules == 1

\* lines 93-96 and 1217-1226: empty stores, an empty job queue, nobody in a
\* conversation
InitBotOf(users, history, scraped) ==
    /\ EngineIdle
    /\ LineIdle
    /\ ClassIdle
    /\ ProjIdle
    /\ CallIdle
    /\ ApiIdle
    /\ SchedIdle
    /\ BgIdle
    /\ TrigIdle
    /\ user_data = <<>>
    /\ saved_routes = <<>>
    /\ scheduled_commutes = <<>>
    /\ job_queue = <<>>
    /\ initial_scrape_done = scraped
    /\ conv = [u \in users |-> END]
    /\ sched_conv = [u \in users |-> END]
    /\ context_user_data = [u \in users |-> <<>>]
    /\ keyboards = [u \in users |-> [history |-> history, shown |-> {}]]
    /\ scrape_task = IF scraped THEN "done" ELSE "created"
    /\ waiting = <<>>

\* one update of user u handled to its end
Update(u, morning_texts, evening_texts, day_buttons, max_schedules) ==
    \/ Start(u)
    \/ \E text \in Names : GetUserName(u, text)
    \/ \E text \in HomeAddresses, geocode \in ApiReplies : GetHomeAddress(u, text, geocode)
    \/ \E text \in WorkAddresses, geocode \in ApiReplies, rain \in ApiReplies :
           GetWorkAddress(u, text, geocode, rain)
    \/ Cancel(u)
    \/ \E kind \in KeyboardKinds : StartNewRouteFromButton(u, kind)
    \/ \E via \in {"command", "button"} : ScheduleStart(u, via)
    \/ SelectRouteForSchedule(u, 0)
    \/ \E text \in morning_texts : GetCommuteTimes(u, text)
    \/ \E text \in evening_texts : GetCommuteDays(u, text)
    \/ \E day \in day_buttons : ConfirmSchedule(u, str(day))
    \/ ConfirmSchedule(u, <<"d", "o", "n", "e">>)
    \/ \E utc_offset \in {60} : ScheduleConfirmed(u, utc_offset, max_schedules)
    \/ ScheduleCancelled(u)
    \/ SaveRoute(u)
    \/ ResetConfirmation(u)
    \/ ConfirmReset(u)
    \/ CancelReset(u)

InitBot == InitBotOf(BotUsers, TRUE, TRUE)

NextBot == \E u \in BotUsers :
               Update(u, MorningTimes, {HHMM(17, 30)}, DayButtons, BotMaxSchedules)

SpecBot == InitBot /\ [][NextBot]_vars

InitChat == InitBotOf(ChatUsers, TRUE, TRUE)

NextChat == \E u \in ChatUsers :
                Update(u, MorningTimes, ChatEveningTimes, DayButtons, MaxSchedules)

SpecChat == InitChat /\ [][NextChat]_vars

InitFresh == InitBotOf(ChatUsers, FALSE, TRUE)

NextFresh == \E u \in ChatUsers :
                 Update(u, MorningTimes, EveningTimes, FreshDayButtons, BotMaxSchedules)

SpecFresh == InitFresh /\ [][NextFresh]_vars

---------------------------------------------------------------------------
(* Properties of the job queue and of the stores.                          *)

\* the jobs of the queue that belong to user v: "user_id" of their data
jobs_of(jobs, v) ==
    LET Own(job) == job.data.user_id = v IN SelectSeq(jobs, Own)

\* a step of one of the four handlers that stop the jobs of user u
StopsJobsOf(u) ==
    \/ Start(u)
    \/ \E kind \in KeyboardKinds : StartNewRouteFromButton(u, kind)
    \/ ConfirmReset(u)
    \/ \E utc_offset \in UtcOffsets, n \in 1 .. MaxSchedules :
           ScheduleConfirmed(u, utc_offset, n)

\* C31: per-user job isolation: no action of user A (/start, Add New Route,
\* confirmed reset, confirming a schedule) removes a scheduled commute job
\* that belongs to a different user B.
C31_JobIsolation ==
    [][\A a \in DOMAIN conv : \A b \in DOMAIN conv \ {a} :
           StopsJobsOf(a) => jobs_of(job_queue', b) = jobs_of(job_queue, b)]_vars

\* What the code keeps of C31: the jobs of B stay when the decimal digits of
\* A's id are not the beginning of those of B's id.
C31_IsolationUnlessIdIsPrefix ==
    [][\A a \in DOMAIN conv : \A b \in DOMAIN conv \ {a} :
           (StopsJobsOf(a) /\ ~startswith(str(b), str(a)))
               => jobs_of(job_queue', b) = jobs_of(job_queue, b)]_vars

\* the jobs of the queue with the name of the morning or evening job of u
jobs_named(u, type) ==
    LET Named(job) == job.name = job_name(u, type) IN SelectSeq(job_queue, Named)

\* the schedule of u that was confirmed last
last_schedule(stored, u) == stored[u][Len(stored[u])]

\* the job is the one that _schedule_commute_checks builds for the morning
\* or evening commute of schedule e, whatever the days of its trigger
JobOfSchedule(job, u, e, type) ==
    /\ _parse_time(e.morning_time).ok
    /\ _parse_time(e.evening_time).ok
    /\ \E utc_offset \in UtcOffsets :
           LET built == commute_job(u, e, type, utc_offset)
           IN  /\ job.name = built.name
               /\ job.data = built.data
               /\ job.trigger.hour = built.trigger.hour
               /\ job.trigger.minute = built.trigger.minute

\* at most one job of each name, and it is of the last schedule
OneJobOfLastSchedule ==
    \A u \in DOMAIN conv : \A type \in {"morning", "evening"} :
        /\ Len(jobs_named(u, type)) <= 1
        /\ Len(jobs_named(u, type)) = 1 =>
               /\ u \in DOMAIN scheduled_commutes
               /\ scheduled_commutes[u] # <<>>
               /\ JobOfSchedule(jobs_named(u, type)[1], u,
                                last_schedule(scheduled_commutes, u), type)

\* a confirmation that leaves jobs of u leaves them with a trigger on the
\* days of the schedule it stored
ConfirmationSetsDays ==
    \A u \in DOMAIN conv :
        (/\ \E utc_offset \in UtcOffsets, n \in 1 .. MaxSchedules :
                ScheduleConfirmed(u, utc_offset, n)
         /\ jobs_of(job_queue', u) # <<>>)
            => \A i \in 1 .. Len(jobs_of(job_queue', u)) :
                   jobs_of(job_queue', u)[i].trigger.day_of_week =
                       CronTrigger(last_schedule(scheduled_commutes', u).days,
                                   [hour |-> 0, minute |-> 0]).day_of_week

\* C32: no duplicate jobs: after any sequence of schedule confirmations,
\* /start commands and resets (and of the other updates) the job queue
\* holds for each user at most one job named commute_<user>_morning and at
\* most one named commute_<user>_evening, and these are the jobs of the
\* schedule the user confirmed last: its route, its commute times, and the
\* days it had when it was confirmed.
C32_NoDuplicateJobs == []OneJobOfLastSchedule /\ [][ConfirmationSetsDays]_vars

\* a state of C32: the user confirmed two schedules with different evening
\* times and the queue holds two jobs, the evening job for the time of the
\* second schedule
C32_SecondScheduleReplacedFirst ==
    \E u \in DOMAIN scheduled_commutes :
        /\ Len(scheduled_commutes[u]) = 2
        /\ _parse_time(scheduled_commutes[u][1].evening_time).ok
        /\ _parse_time(scheduled_commutes[u][2].evening_time).ok
        /\ scheduled_commutes[u][1].evening_time # scheduled_commutes[u][2].evening_time
        /\ scheduled_commutes[u][1].days # <<>>
        /\ Len(jobs_of(job_queue, u)) = 2
        /\ Len(jobs_named(u, "evening")) = 1
        /\ jobs_named(u, "evening")[1].data.commute_time =
               scheduled_commutes[u][2].evening_time

\* C33: a confirmed schedule is backed by jobs: in every reachable state,
\* for every user, an entry of scheduled_commutes marked active has its
\* morning and its evening job in the job queue.
C33_ActiveScheduleHasJobs ==
    \A u \in DOMAIN scheduled_commutes :
        (\E i \in 1 .. Len(scheduled_commutes[u]) : scheduled_commutes[u][i].active)
            => /\ Len(jobs_named(u, "morning")) >= 1
               /\ Len(jobs_named(u, "evening")) >= 1

\* a step of schedule_confirmed for user u
Confirms(u) ==
    \E utc_offset \in UtcOffsets, n \in 1 .. MaxSchedules :
        ScheduleConfirmed(u, utc_offset, n)

\* C33, its second part: whenever the user is shown "Schedule confirmed!"
\* (line 441) both jobs exist afterwards, whatever text was entered as
\* commute times.
C33_ConfirmedMeansJobs ==
    [][\A u \in DOMAIN conv :
           Confirms(u) => /\ Len(SelectSeq(job_queue', LAMBDA job :
                                     job.name = job_name(u, "morning"))) >= 1
                          /\ Len(SelectSeq(job_queue', LAMBDA job :
                                     job.name = job_name(u, "evening"))) >= 1]_vars

\* What the code keeps of C33: a confirmation that stores a schedule with
\* two valid times and a day, for a user with an entry in user_data, leaves
\* both jobs in the queue.
C33_ValidConfirmationMeansJobs ==
    [][\A u \in DOMAIN conv :
           (/\ Confirms(u)
            /\ ~RouteOrTimesMissing(u)
            /\ "days" \in DOMAIN context_user_data[u]
            /\ schedule_outcome(u, schedule_info(u)) = "scheduled")
               => /\ Len(SelectSeq(job_queue', LAMBDA job :
                             job.name = job_name(u, "morning"))) = 1
                  /\ Len(SelectSeq(job_queue', LAMBDA job :
                             job.name = job_name(u, "evening"))) = 1]_vars

\* C35: day selection in the schedule conversation: each day button toggles
\* membership of that day, so the selected-days list never contains a day
\* twice; and no schedule is ever stored with an empty set of days.
C35_DaySelection ==
    /\ \A u \in DOMAIN context_user_data :
           "days" \in DOMAIN context_user_data[u] =>
               LET days == context_user_data[u]["days"]
               IN  \A i, j \in 1 .. Len(days) : days[i] = days[j] => i = j
    /\ \A u \in DOMAIN scheduled_commutes :
           \A i \in 1 .. Len(scheduled_commutes[u]) :
               scheduled_commutes[u][i].days # <<>>

\* What the code keeps of C35: the selected-days list never contains a day
\* twice.
C35_NoDayTwice ==
    \A u \in DOMAIN context_user_data :
        "days" \in DOMAIN context_user_data[u] =>
            LET days == context_user_data[u]["days"]
            IN  \A i, j \in 1 .. Len(days) : days[i] = days[j] => i = j

\* What the code keeps of C35: pressing Done while no day is selected keeps
\* the conversation in its state and stores no schedule and no job.
C35_DoneWithoutDayChangesNothing ==
    [][\A u \in DOMAIN conv :
           (/\ ConfirmSchedule(u, <<"d", "o", "n", "e">>)
            /\ ~truthy_get(context_user_data[u], "days"))
               => UNCHANGED <<sched_conv, scheduled_commutes, job_queue>>]_vars

\* What the code keeps of C35: a schedule is stored with the days that are
\* selected at the moment Yes is pressed, whatever they are.
C35_StoredDaysAreSelectedDays ==
    [][\A u \in DOMAIN conv :
           (Confirms(u) /\ scheduled_commutes' # scheduled_commutes)
               => last_schedule(scheduled_commutes', u).days =
                      context_user_data[u]["days"]]_vars

\* the entries of user v in the three stores
entries_of(data, saved, schedules, v) ==
    <<IF v \in DOMAIN data THEN <<data[v]>> ELSE <<>>,
      IF v \in DOMAIN saved THEN <<saved[v]>> ELSE <<>>,
      IF v \in DOMAIN schedules THEN <<schedules[v]>> ELSE <<>>>>

\* user u has no entry in the three stores and no job named commute_<u>...
NothingLeftOf(data, saved, schedules, jobs, u) ==
    /\ u \notin DOMAIN data
    /\ u \notin DOMAIN saved
    /\ u \notin DOMAIN schedules
    /\ \A i \in 1 .. Len(jobs) : ~startswith(jobs[i].name, user_job_prefix(u))

\* C36: a confirmed reset deletes everything of the user and nothing else:
\* after _handle_confirm_reset for user u the three stores have no entry for
\* u and no job named commute_<u>_... remains, while what belongs to every
\* other user, entries of the three stores and jobs, is unchanged; cancelling
\* the reset changes none of them.
C36_ResetDeletesTheUserOnly ==
    [][\A u \in DOMAIN conv :
           /\ ConfirmReset(u) =>
                  /\ NothingLeftOf(user_data', saved_routes', scheduled_commutes',
                                   job_queue', u)
                  /\ \A v \in DOMAIN conv \ {u} :
                         /\ entries_of(user_data', saved_routes', scheduled_commutes', v)
                                = entries_of(user_data, saved_routes, scheduled_commutes, v)
                         /\ jobs_of(job_queue', v) = jobs_of(job_queue, v)
           /\ CancelReset(u) =>
                  UNCHANGED <<user_data, saved_routes, scheduled_commutes, job_queue>>]_vars

\* What the code keeps of C36: after the confirmed reset nothing of the user
\* is left, and the entries of the other users in the three stores are
\* unchanged.
C36_ResetLeavesStoresOfOthers ==
    [][\A u \in DOMAIN conv :
           ConfirmReset(u) =>
               /\ NothingLeftOf(user_data', saved_routes', scheduled_commutes',
                                job_queue', u)
               /\ \A v \in DOMAIN conv \ {u} :
                      entries_of(user_data', saved_routes', scheduled_commutes', v)
                          = entries_of(user_data, saved_routes, scheduled_commutes, v)]_vars

\* What the code keeps of C36: cancelling the reset changes none of the
\* stores and no job.
C36_CancelResetChangesNothing ==
    [][\A u \in DOMAIN conv :
           CancelReset(u) =>
               UNCHANGED <<user_data, saved_routes, scheduled_commutes, job_queue>>]_vars

---------------------------------------------------------------------------
(* SpecScrape: the start of the bot.  post_init has created the task       *)
(* scrape_and_set_event (line 1210); the task runs beside the handlers of  *)
(* one user in a chat with history.  The event loop gives every task that  *)
(* can run its turn, the request of the scrape ends within its timeout of  *)
(* 10 seconds (api.py, line 93), and a handler waiting for the event is    *)
(* woken once it is set: the steps of the task and the resumptions are     *)
(* weakly fair.  scrape_task is "created", "requesting", and then the way  *)
(* the request ended, which api.py logs.                                   *)

\* the ways the request of trigger_scrape_api ends: status 202, another
\* status, an exception of requests, any other exception of the executor
ScrapeOutcomes == {"accepted", "rejected", "RequestException", "Exception"}

\* trigger_scrape_api, api.py lines 84-108: "returned" or "raised"; the
\* statuses are logged (lines 94-99), a RequestException is caught at line
\* 100 and everything else at line 107, where it is logged and not raised
trigger_scrape_api(outcome) ==
    CASE outcome \in {"accepted", "rejected"} -> "returned"
      [] outcome = "RequestException" -> "returned"
      [] OTHER -> "returned"

\* scrape_and_set_event, lines 100-104: the task starts and awaits
\* trigger_scrape_api
ScrapeStarts ==
    /\ scrape_task = "created"
    /\ scrape_task' = "requesting"
    /\ UNCHANGED <<user_data, saved_routes, scheduled_commutes, job_queue,
                   initial_scrape_done, conv, sched_conv, context_user_data,
                   keyboards, waiting, notBotVars>>

\* scrape_and_set_event with the event set on line 105 only and the except
\* clause of lines 107-110 as in api.py: the failure logged, the event left
ScrapeEnds_sets_event_after_status(outcome) ==
    /\ scrape_task = "requesting"
    /\ initial_scrape_done' = (initial_scrape_done \/ outcome \in {"accepted", "rejected"})
    /\ scrape_task' = outcome
    /\ UNCHANGED <<user_data, saved_routes, scheduled_commutes, job_queue, conv,
                   sched_conv, context_user_data, keyboards, waiting, notBotVars>>

\* scrape_and_set_event, lines 104-110: trigger_scrape_api ends, the event
\* is set on line 105, or on line 110 after an exception
ScrapeEnds(outcome) ==
    /\ scrape_task = "requesting"
    /\ IF trigger_scrape_api(outcome) = "returned"
       THEN initial_scrape_done' = TRUE
       ELSE initial_scrape_done' = TRUE
    /\ scrape_task' = outcome
    /\ UNCHANGED <<user_data, saved_routes, scheduled_commutes, job_queue, conv,
                   sched_conv, context_user_data, keyboards, waiting, notBotVars>>

InitScrape == InitBotOf(ChatUsers, TRUE, FALSE)

ScrapeTask ==
    \/ ScrapeStarts
    \/ \E outcome \in ScrapeOutcomes : ScrapeEnds(outcome)

Resumes ==
    \/ StartResumes
    \/ \E rain \in ApiReplies : GetWorkAddressResumes(rain)

NextScrape ==
    \/ ScrapeTask
    \/ Resumes
    \/ \E u \in ChatUsers :
           \/ StartWaits(u)
           \/ \E text \in WorkAddresses : GetWorkAddressWaits(u, text)
           \/ Update(u, MorningTimes, {HHMM(17, 30)}, DayButtons, BotMaxSchedules)

SpecScrape ==
    /\ InitScrape
    /\ [][NextScrape]_vars
    /\ WF_vars(ScrapeTask)
    /\ WF_vars(Resumes)

\* C37: the bot never hangs on the startup scrape: after post_init,
\* initial_scrape_done is eventually set whether the scrape request succeeds,
\* is rejected or raises, it is never cleared once set, and therefore every
\* /start and every rain check waiting on it eventually proceeds.
C37_StartupScrapeNeverHangs ==
    /\ <>initial_scrape_done
    /\ [][initial_scrape_done => initial_scrape_done']_vars
    /\ (waiting # <<>>) ~> (waiting = <<>>)

\* a state of C37: the request of the scrape raised, the event is set, and
\* the rain check that waited for it can go on
C37_RainCheckWokenAfterFailedScrape ==
    /\ scrape_task = "RequestException"
    /\ initial_scrape_done
    /\ waiting # <<>>
    /\ waiting.handler = "get_work_address"

====
